---- MODULE Spec2Model ----
(***************************************************************************)
(* GoRAGlite: run lifecycle, merge queue and corpus-db.                    *)
(*                                                                         *)
(* The model follows internal/merger/merger.go (Merger), internal/db/db.go *)
(* (DB.Attach, DB.Detach, DB.Transaction), the orchestrator (Ingest,       *)
(* ProcessPending), the workflow engine's Run, and the corpus schema.      *)
(* Tables are sets of rows; a row is a record of the columns the code      *)
(* reads or writes.                                                        *)
(*                                                                         *)
(* Spec:       orchestrator, workers and merger together; Engine.Run is    *)
(*             one step.                                                   *)
(* SpecSerial: workers on pairwise disjoint files, then one processBatch.  *)
(* SpecEngine: one call of Engine.Run step by step, with cancellation.     *)
(* SpecCLI:    the commands raglite ingest and raglite process.            *)
(* SpecShutdown: orchestrator and the merger's batch loop, with            *)
(*             cancellation of the context.                                *)
(* SpecStart:  orchestrator and Merger.Start's ticker loop, with           *)
(*             cancellation of the context.                                *)
(* SpecRetry:  workers, then the batch loop, ProcessOne and RetryFailed.   *)
(* SpecIngest: calls of Orchestrator.Ingest step by step, overlapping in   *)
(*             time, with cancellation of the context.                     *)
(* SpecGC:     a worker that can be killed inside Run, the batch loop and  *)
(*             raglite gc.                                                 *)
(* SpecPipe:   the hash, deduplicate and finalize steps of a run and the   *)
(*             chunk insert, with the content and hash columns.            *)
(* SpecMime:   orchestrator and batch loop with a file whose MIME type has *)
(*             no workflow.                                                *)
(* SpecHandle: DB.Attach and DB.Detach on one handle, with failing         *)
(*             statements and the pool's connection lifetime.              *)
(* SpecTxn:   calls of DB.Transaction step by step, with failing begin,    *)
(*             rollback and commit.                                        *)
(* SpecDelta: executeStep's row accounting for every pair of counts.       *)
(* SpecSweep: workers, the batch loop and raglite gc at any moment.         *)
(* SpecLife: Merger.Start and Merger.Stop called in any order.            *)
(* SpecBus: horosbus SubmitTask and concurrent ClaimTask calls.             *)
(* SpecFK: chunk inserts and merges on a connection the pool may replace.  *)
(* SpecSearch: raglite search, with a search that cannot be carried out.   *)
(***************************************************************************)
EXTENDS Integers, Sequences, FiniteSets, TLC

\* ------------------------------------------------------------------ bounds
MaxRuns == 2        \* run-dbs created in one behaviour (uuid run ids 1..MaxRuns)
NumFiles == 1       \* distinct file contents that can be ingested
MaxSteps == 2       \* steps of a workflow
NumIngesters == 2   \* callers of Orchestrator.Ingest at the same time
MaxContent == 2     \* distinct trimmed texts of a segment
MaxPad == 1         \* bytes of white space around a segment's text
MaxRows == 2        \* rows a transaction's fn can write
MaxCount == 7       \* rows of a step's source or output table
ConnMaxLifetime == 2 \* clock ticks a pooled connection may be reused for (DefaultConfig: one hour)

\* ------------------------------------------------------- program constants
BatchSize == 100    \* merger.DefaultConfig: BatchSize
NULL == 0           \* SQL NULL in chunks.created_by_run
SharedChunk == 0    \* content hash of a segment every file contains
LegacyFile == 0     \* id of a file stored before any run
GoFile == -1        \* id of a file ingested from a path ending in .go
ZeroTime == -1      \* time.Time{}: Run.FinishedAt before Run assigns it (clock values are >= 0)

RunIds == 1..MaxRuns
FileIds == 1..NumFiles
Ingesters == 1..NumIngesters
MergeProcs == {"batch", "one"}

\* chunk_vectors.layer CHECK (layer IN ('structure','lexical','contextual','blend'))
SchemaLayers == {"structure", "lexical", "contextual", "blend"}
\* layers a vectorize step can be configured to emit ('final' is not in the CHECK)
WorkflowLayers == {"structure", "final"}

VARIABLES
    corpus,     \* corpus.db: record of tables
    rundb,      \* rundb[r]: the run-db file of run r: _run_meta.status, _output, vector layer
    loc,        \* loc[r]: directory holding run r's file: none | runs | pending | done | failed
                \* (removed: deleted by GarbageCollect)
    mtime,      \* mtime[r]: modification time of run r's file
    clock,      \* wall clock (ticks at every run-db write that ends a run)
    returned,   \* runs whose Engine.Run returned (run, nil) to a worker that has not yet renamed the file
    mpc,        \* mpc[p]: position of merger entry point p inside mergeRun: idle | body | finish
    mrun,       \* mrun[p]: run-db that p is merging (0: none)
    mres,       \* mres[p]: the return mergeRun has taken: none | err | skipped | merged
    queue,      \* processBatch: dbFiles[i..count-1], the listed run-dbs not yet processed
    attached,   \* corpusDB.attached: run-db attached under alias run_src (0: none)
    eng,        \* eng[r]: the call Engine.Run of run r, step by step: position, *Run, return
    ctx,        \* the context main hands to every command: live | cancelled
    start,      \* Merger.Start: none | loop | returned, and whether ticker.C holds a tick
    retried,    \* history: the run-dbs a remembered RetryFailed has moved back to pending/
    store,      \* store[f]: the file {dataDir}/storage/raw/../f: absent | stored | partial
    ing,        \* ing[p]: the call Orchestrator.Ingest of caller p, step by step
    pipe,       \* one run's segments through the hash, deduplicate and finalize steps, and chunks with its content and hash columns
    proc,       \* the last call of ProcessPending that recorded its outcome: what it returned and the workflows it reported as failed on stderr
    handle,     \* a DB handle used by Attach and Detach alone: db.attached, the schemas attached on the pool's connection, the connection's age, the last call
    txn,        \* one caller of DB.Transaction: its position, the committed rows, the rows fn wrote, fn's result, and what the last call returned
    sexec,      \* a StepExecution inside executeStep: the position, RowsIn, RowsOut and DeltaScore
    life,       \* Merger lifecycle: m.running, m.stopCh, the callers of Start, the last Stop
    bus,        \* horosbus: the tasks table as committed, the write lock, each ClaimTask caller
    srch        \* Orchestrator.Search under raglite search: position, obstacle, _output, what was returned and shown

vars == <<corpus, rundb, loc, mtime, clock, returned, mpc, mrun, mres, queue, attached, eng, ctx, start, retried, store, ing, pipe, proc, handle, txn, sexec, life, bus, srch>>

\* ------------------------------------------------------------------ helpers
Min(S) == CHOOSE x \in S : \A y \in S : x <= y

\* ------------------------------------------------------------------ corpus.db
EmptyCorpus ==
    [raw_files |-> {}, chunks |-> {}, chunk_features |-> {}, chunk_vectors |-> {},
     chunk_relations |-> {}, run_history |-> {}, audit_log |-> {}]

\* a corpus that already holds a file and a chunk written before any run
LegacyCorpus ==
    [EmptyCorpus EXCEPT
        !.raw_files = {[id |-> LegacyFile, status |-> "vectorized"]},
        !.chunks = {[id |-> SharedChunk, file_id |-> LegacyFile, created_by_run |-> NULL]}]

HasFile(db, f) == \E row \in db.raw_files : row.id = f

\* ------------------------------------------------------------------ external store
\* content ids a file can be stored under (the workers of SpecSerial take the
\* file whose id is their own)
ContentIds == {GoFile, LegacyFile} \cup FileIds \cup RunIds

\* the store that goes with a corpus.db: one whole file per raw_files row
StoreOf(db) == [f \in ContentIds |-> IF HasFile(db, f) THEN "stored" ELSE "absent"]

\* no call of Ingest in progress. f: the content hash; had: a raw_files row
\* with that id existed when the call looked; ret: what the last call returned
NoIngest == [pc |-> "idle", f |-> LegacyFile, had |-> FALSE, ret |-> "none"]
HasChunk(db, c) == \E row \in db.chunks : row.id = c
MergedIn(db, r) == \E row \in db.run_history : row.run_id = r /\ row.merge_status = "merged"

\* no call of ProcessPending recorded
NoProcess == [ret |-> "none", reported |-> {}]

\* a handle just opened: nothing tracked, a new connection on which Open has
\* run PRAGMA foreign_keys = ON, no call yet
NoHandle == [attached |-> {}, schemas |-> {}, age |-> 0, fk |-> TRUE,
             last |-> [op |-> "none", alias |-> "", err |-> FALSE]]

\* no call of Transaction yet. err: the errors the returned error carries
NoTxn == [pc |-> "idle", db |-> {}, tx |-> {}, fnErr |-> FALSE, err |-> {}, committed |-> FALSE]

\* a quotient num / den of integers, den > 0
Quotient(num, den) == [num |-> num, den |-> den]

\* exec := &StepExecution{...}: the counts and the score are Go zero values
NoExec == [pc |-> "new", rows_in |-> 0, rows_out |-> 0, delta_score |-> Quotient(0, 1)]

\* goroutines that call Merger.Start
NumStarters == 2
Starters == 1..NumStarters

\* merger.New: running false, stopCh made and open; no call of Start or Stop yet.
\* st[c]: where caller c is in Start, the ctx it passed, whether its loop has
\* run a batch, what its last call returned
NoLife ==
    [running |-> FALSE, stopCh |-> "open", panicked |-> FALSE, stop |-> "none",
     st |-> [c \in Starters |-> [pc |-> "idle", ctx |-> "live", ticked |-> FALSE, ret |-> "none"]]]

\* horosbus: tasks ever submitted, workers that claim
NumTasks == 2
NumWorkers == 2
TaskIds == 1..NumTasks
Workers == 1..NumWorkers
\* values of time.Now().Unix(): as many as tasks, so that all can differ
Stamps == 1..NumTasks
Zones == {"chunk", "embed"}

\* a task id with no row in tasks
NoTask == [status |-> "none", zone |-> "", created_at |-> 0, worker_id |-> 0]

\* Connect on a new events db: tasks is empty, nobody holds the write lock, no
\* ClaimTask under way. w[k]: where worker k is in ClaimTask, the row it
\* selected, whether another connection has committed since its SELECT;
\* got[k]: the tasks returned to k
NoClaim == [pc |-> "idle", task |-> 0, stale |-> FALSE]

NoBus ==
    [tasks |-> [t \in TaskIds |-> NoTask], writer |-> 0,
     w |-> [k \in Workers |-> NoClaim],
     got |-> [k \in Workers |-> {}]]

\* no raglite search yet. obstacle: what keeps the search from being carried
\* out; output: the rows of _output; results, err: what Search returned; shown,
\* exit: what the command printed and its exit status (-1: still running)
NoSearch ==
    [pc |-> "idle", obstacle |-> "none", output |-> {}, results |-> << >>, err |-> "none",
     shown |-> "none", exit |-> -1]

\* pipe before any run: no step table, chunks empty
NoPipe == [pc |-> "none", table |-> {}, chunks |-> {}]

\* ------------------------------------------------------------------ run-db
\* status, finished_at: the _run_meta row (status none: no row); log: the rows
\* of _step_executions; tables: the tables the steps have created
NoRunDB ==
    [status |-> "none", finished_at |-> NULL, output |-> {}, layer |-> "structure",
     log |-> {}, tables |-> {}]

\* no call of Engine.Run followed step by step. steps: workflow.Steps; i: the
\* loop index (from 1); last: lastStepOutput; status, fin: run.Status and
\* run.FinishedAt; ran: the calls of executeStep so far, with the table each
\* read; att: runDB.attached tracks the alias corpus
NoCall ==
    [pc |-> "none", n |-> 0, i |-> 0, status |-> "none", ret |-> "none",
     steps |-> << >>, last |-> "", fin |-> ZeroTime, ran |-> << >>, att |-> FALSE]

\* segments of file f: its own content plus the segment shared by every file
FileChunks(f) == {SharedChunk, f}

\* _output of a run that kept the chunks of the files in D; _output.id is the
\* primary key, so a chunk id that two files share appears once
FullOutput(D) ==
    {[id |-> c, file_id |-> Min({f \in D : c \in FileChunks(f)})] :
        c \in UNION {FileChunks(f) : f \in D}}

OutputFeatures(r) ==
    {[chunk_id |-> row.id, feature_name |-> "line_count", feature_value |-> row.id] :
        row \in rundb[r].output}
OutputVectors(r) ==
    {[chunk_id |-> row.id, layer |-> rundb[r].layer, vector |-> r] : row \in rundb[r].output}
OutputRelations(r) ==
    {[from_chunk_id |-> row.id, to_chunk_id |-> SharedChunk, relation_type |-> "follows"] :
        row \in {x \in rundb[r].output :
                    x.id # SharedChunk /\ \E y \in rundb[r].output : y.id = SharedChunk}}
OutputFiles(r) == {row.file_id : row \in rundb[r].output}

\* ------------------------------------------------------------------ DB.Transaction
\* a transaction in flight: the connection's view of corpus.db, whether a
\* statement has failed, and RowsAffected of the chunk insert
TxBegin(db) == [ok |-> TRUE, db |-> db, n |-> 0]
TxFail(tx) == [tx EXCEPT !.ok = FALSE]

\* db.Transaction(fn) without the rollback: what fn wrote stays
TransactionNoRollback(db, tx) == [err |-> ~tx.ok, db |-> tx.db]

\* db.Transaction(fn): commit when fn returned nil, roll back otherwise
Transaction(db, tx) ==
    IF tx.ok THEN [err |-> FALSE, db |-> tx.db] ELSE [err |-> TRUE, db |-> db]

\* ------------------------------------------------------------------ the pool's connection
\* database/sql takes the connection for a statement: one that is older than
\* SetConnMaxLifetime is closed and a new one opened. ATTACH and PRAGMA
\* foreign_keys are state of the connection: the new one has no attached
\* schema and SQLite's default, foreign keys off
ConnFor(h) ==
    IF h.age >= ConnMaxLifetime THEN [h EXCEPT !.schemas = {}, !.age = 0, !.fk = FALSE] ELSE h

\* foreign keys are enforced on the connection the next statement gets
ForeignKeysOn == ConnFor(handle).fk

\* ------------------------------------------------------------------ merge statements
\* INSERT OR IGNORE INTO chunks ... SELECT ..., NULL: the run id left out
mergeChunksNullRun(tx, r) ==
    LET new == {row \in rundb[r].output : ~HasChunk(tx.db, row.id)}
    IN  IF ForeignKeysOn /\ (\E row \in new : ~HasFile(tx.db, row.file_id))
        THEN TxFail(tx)
        ELSE [tx EXCEPT
                !.db.chunks = @ \cup
                    {[id |-> row.id, file_id |-> row.file_id, created_by_run |-> NULL] :
                        row \in new},
                !.n = Cardinality(new)]

\* INSERT OR IGNORE INTO chunks ... SELECT ..., '<runID>' FROM run_src._output.
\* A row whose id is already stored is skipped; chunks.file_id REFERENCES
\* raw_files(id), and a foreign-key violation is not ignored: the statement
\* fails, on a connection that enforces foreign keys.
mergeChunks(tx, r) ==
    LET new == {row \in rundb[r].output : ~HasChunk(tx.db, row.id)}
    IN  IF ForeignKeysOn /\ (\E row \in new : ~HasFile(tx.db, row.file_id))
        THEN TxFail(tx)
        ELSE [tx EXCEPT
                !.db.chunks = @ \cup
                    {[id |-> row.id, file_id |-> row.file_id, created_by_run |-> r] :
                        row \in new},
                !.n = Cardinality(new)]

\* INSERT OR REPLACE INTO chunk_features ... FROM run_src._output_features
\* (primary key (chunk_id, feature_name); chunk_id REFERENCES chunks(id))
mergeFeatures(tx, r) ==
    LET rows == OutputFeatures(r)
    IN  IF ForeignKeysOn /\ (\E row \in rows : ~HasChunk(tx.db, row.chunk_id))
        THEN TxFail(tx)
        ELSE [tx EXCEPT
                !.db.chunk_features =
                    {old \in @ : ~\E row \in rows :
                        row.chunk_id = old.chunk_id /\ row.feature_name = old.feature_name}
                    \cup rows]

\* the merge without the vectors
mergeVectorsSkipped(tx, r) == tx

\* INSERT OR REPLACE INTO chunk_vectors ... FROM run_src._output_vectors
\* (primary key (chunk_id, layer); CHECK on layer; chunk_id REFERENCES chunks(id))
mergeVectors(tx, r) ==
    LET rows == OutputVectors(r)
    IN  IF \E row \in rows : \/ row.layer \notin SchemaLayers
                               \/ (ForeignKeysOn /\ ~HasChunk(tx.db, row.chunk_id))
        THEN TxFail(tx)
        ELSE [tx EXCEPT
                !.db.chunk_vectors =
                    {old \in @ : ~\E row \in rows :
                        row.chunk_id = old.chunk_id /\ row.layer = old.layer}
                    \cup rows]

\* INSERT OR IGNORE INTO chunk_relations ... SELECT ..., '<runID>' FROM run_src._output_relations
\* (primary key (from_chunk_id, to_chunk_id, relation_type))
mergeRelations(tx, r) ==
    LET new == {row \in OutputRelations(r) : ~\E old \in tx.db.chunk_relations :
                    /\ old.from_chunk_id = row.from_chunk_id
                    /\ old.to_chunk_id = row.to_chunk_id
                    /\ old.relation_type = row.relation_type}
    IN  IF ForeignKeysOn /\ (\E row \in new : \/ ~HasChunk(tx.db, row.from_chunk_id)
                                              \/ ~HasChunk(tx.db, row.to_chunk_id))
        THEN TxFail(tx)
        ELSE [tx EXCEPT
                !.db.chunk_relations = @ \cup
                    {[from_chunk_id |-> row.from_chunk_id, to_chunk_id |-> row.to_chunk_id,
                      relation_type |-> row.relation_type, created_by_run |-> r] : row \in new}]

\* INSERT OR REPLACE INTO run_history (...) SELECT ..., status, ?, 'merged' FROM run_src._run_meta
updateRunHistory(tx, r) ==
    [tx EXCEPT
        !.db.run_history =
            {old \in @ : old.run_id # r} \cup
            {[run_id |-> r, status |-> rundb[r].status, rows_produced |-> tx.n,
              merge_status |-> "merged"]}]

\* the merge without the raw_files update
updateFileStatusSkipped(tx, r) == tx

\* UPDATE raw_files SET status = 'vectorized' WHERE id IN (SELECT DISTINCT file_id FROM run_src._output)
updateFileStatus(tx, r) ==
    [tx EXCEPT
        !.db.raw_files =
            {IF row.id \in OutputFiles(r) THEN [row EXCEPT !.status = "vectorized"] ELSE row :
                row \in @}]

\* the function mergeRun hands to Transaction: the statements in order, the
\* first error ends it and no later statement runs
MergeTx(db, r) ==
    LET t1 == mergeChunks(TxBegin(db), r)
        t2 == IF t1.ok THEN mergeFeatures(t1, r) ELSE t1
        t3 == IF t2.ok THEN mergeVectors(t2, r) ELSE t2
        t4 == IF t3.ok THEN mergeRelations(t3, r) ELSE t3
        t5 == IF t4.ok THEN updateRunHistory(t4, r) ELSE t4
    IN  IF t5.ok THEN updateFileStatus(t5, r) ELSE t5

\* mergeRun without the run_history gate
AlreadyMergedNever(db, r) == FALSE

\* SELECT COUNT(*) FROM run_history WHERE run_id = ? AND merge_status = 'merged'
AlreadyMerged(db, r) == MergedIn(db, r)

\* mergeRun without the status check
StatusCompletedAny(r) == rundb[r].status # "none"

\* SELECT status FROM run_src._run_meta LIMIT 1; status != "completed" is an error
StatusCompleted(r) == rundb[r].status = "completed"

\* mergeRun after the attach: corpus.db afterwards and the return taken:
\* "err" (an error), "skipped" (return nil, already merged) or "merged" (the
\* transaction committed)
MergeRunBody(db, r) ==
    IF ~StatusCompleted(r) THEN [ret |-> "err", db |-> db]
    ELSE IF AlreadyMerged(db, r) THEN [ret |-> "skipped", db |-> db]
    ELSE LET t == Transaction(db, MergeTx(db, r))
         IN  [ret |-> IF t.err THEN "err" ELSE "merged", db |-> t.db]

\* ------------------------------------------------------------------ merge queue
\* a listing that takes in runs/ as well as pending/
PendingOrNewRuns == {r \in RunIds : loc[r] \in {"pending", "runs"}}

\* os.ReadDir(m.queueDir): the .db files of pending/
PendingRuns == {r \in RunIds : loc[r] = "pending"}

RECURSIVE SortByName(_)
\* the listing as os.ReadDir returns it: by file name, mtime not looked at
SortByName(S) == IF S = {} THEN << >> ELSE <<Min(S)>> \o SortByName(S \ {Min(S)})

RECURSIVE SortByMtimeAfter(_)
\* the sort with the comparison turned round (After for Before): newest first
SortByMtimeAfter(S) ==
    IF S = {} THEN << >>
    ELSE LET first == CHOOSE r \in S : \A q \in S : mtime[r] >= mtime[q]
         IN  <<first>> \o SortByMtimeAfter(S \ {first})

RECURSIVE SortByMtime(_)
\* sort.Slice(dbFiles, ModTime(i).Before(ModTime(j))): ascending modification time
SortByMtime(S) ==
    IF S = {} THEN << >>
    ELSE LET first == CHOOSE r \in S : \A q \in S : mtime[r] <= mtime[q]
         IN  <<first>> \o SortByMtime(S \ {first})

\* count := min(batchSize, len(dbFiles)); the loop runs over dbFiles[0..count-1]
Batch(files) == SubSeq(files, 1, IF Len(files) < BatchSize THEN Len(files) ELSE BatchSize)

\* DB.Attach without the check of the tracked aliases
AttachFailsNever == FALSE

\* DB.Attach: "alias already attached" when run_src is tracked; otherwise the
\* ATTACH statement, which fails when the context is cancelled
AttachFails == attached # 0 \/ ctx = "cancelled"

\* DB.Detach of a tracked alias: the DETACH statement is issued with the
\* caller's context and fails when that context is cancelled; the alias then
\* stays in db.attached
DetachFails == ctx = "cancelled"

\* ------------------------------------------------------------------ Init
Init ==
    /\ corpus \in {EmptyCorpus, LegacyCorpus}
    /\ rundb = [r \in RunIds |-> NoRunDB]
    /\ loc = [r \in RunIds |-> "none"]
    /\ mtime = [r \in RunIds |-> 0]
    /\ clock = 0
    /\ returned = {}
    /\ mpc = [p \in MergeProcs |-> "idle"]
    /\ mrun = [p \in MergeProcs |-> 0]
    /\ mres = [p \in MergeProcs |-> "none"]
    /\ queue = << >>
    /\ attached = 0
    /\ eng = [r \in RunIds |-> NoCall]
    /\ ctx = "live"
    /\ start = [pc |-> "none", tick |-> FALSE]
    /\ retried = {}
    /\ store = StoreOf(corpus)
    /\ ing = [p \in Ingesters |-> NoIngest]
    /\ pipe = NoPipe
    /\ proc = NoProcess
    /\ handle = NoHandle
    /\ txn = NoTxn
    /\ sexec = NoExec
    /\ life = NoLife
    /\ bus = NoBus
    /\ srch = NoSearch

\* ------------------------------------------------------------------ orchestrator
\* Orchestrator.Ingest(path) for a file whose content hash is f, with no error
\* and no other call of Ingest at the same time: the copy into the store and
\* the row. An id that already has a row returns early and changes nothing.
Ingest(f) ==
    /\ ctx = "live"
    /\ ~HasFile(corpus, f)
    /\ corpus' = [corpus EXCEPT
            !.raw_files = @ \cup {[id |-> f, status |-> "pending"]},
            !.audit_log = @ \cup {[actor |-> "orchestrator", action |-> "ingest", target |-> f]}]
    /\ store' = [store EXCEPT ![f] = "stored"]
    /\ UNCHANGED <<rundb, loc, mtime, clock, returned, mpc, mrun, mres, queue, attached, eng, ctx, start, retried, ing, pipe, proc, handle, txn, sexec, life, bus, srch>>

\* SELECT id, mime_type FROM raw_files WHERE status = 'pending'
PendingFiles(db) == {row.id : row \in {x \in db.raw_files : x.status = "pending"}}

\* the run-db write that ends a run: _run_meta.status and finished_at, and the
\* file's mtime. run.FinishedAt is assigned on the way to completed only: the
\* update to failed writes the zero time, and a status still running means the
\* update did not happen
EndRun(r, status, output, layer) ==
    /\ rundb' = [rundb EXCEPT
            ![r].status = status, ![r].output = output, ![r].layer = layer,
            ![r].finished_at = IF status = "completed" THEN clock + 1
                               ELSE IF status = "failed" THEN ZeroTime ELSE NULL]
    /\ clock' = clock + 1
    /\ mtime' = [mtime EXCEPT ![r] = clock + 1]

\* Engine.Run(workflowID, cfg) called by a worker for the files F: the fresh run
\* id r, the run-db created under runs/, the steps, the final status update.
\* Any number of workers may be between Run's return and the rename.
EngineRun(r, F) ==
        /\ rundb[r].status = "none"
        /\ loc' = [loc EXCEPT ![r] = "runs"]
        /\ \/ \* every step succeeded: status completed, Run returns (run, nil)
              /\ \E D \in {{}, F} : \E layer \in WorkflowLayers :
                    /\ D = {} => layer = "structure"
                    /\ EndRun(r, "completed", FullOutput(D), layer)
              /\ returned' = returned \cup {r}
           \/ \* every step succeeded but the last updateRunStatus failed; its error
              \* is dropped, so Run still returns (run, nil) and the row says running
              /\ EndRun(r, "running", FullOutput(F), "structure")
              /\ returned' = returned \cup {r}
           \/ \* a step failed, or was empty with on_empty = fail: status failed
              \* (still running when the status update failed), Run returns an
              \* error and the caller leaves the file in runs/
              /\ \E status \in {"failed", "running"} : EndRun(r, status, {}, "structure")
              /\ UNCHANGED returned
        /\ UNCHANGED <<corpus, mpc, mrun, mres, queue, attached, eng, ctx, start, retried, store, ing, pipe, handle, txn, sexec, life, bus, srch>>

\* detectMimeType(path, content) of the path a file was ingested from
MimeType(f) == IF f = GoFile THEN "text/x-go" ELSE "application/pdf"

\* defaultWorkflowMap
workflowMap ==
    [m \in {"application/pdf",
            "application/vnd.openxmlformats-officedocument.wordprocessingml.document",
            "application/msword", "text/plain", "text/markdown",
            "application/vnd.openxmlformats-officedocument.spreadsheetml.sheet",
            "application/vnd.ms-excel"} |->
        CASE m = "application/pdf" -> "pdf_chunking_v1"
          [] m \in {"application/vnd.openxmlformats-officedocument.wordprocessingml.document",
                    "application/msword"} -> "docx_chunking_v1"
          [] m \in {"text/plain", "text/markdown"} -> "text_chunking_v1"
          [] OTHER -> "xlsx_chunking_v1"]

\* workflowFiles with every pending file, whatever its MIME type
WorkflowFilesAll(db) == PendingFiles(db)

\* workflowFiles: workflowID, ok := o.workflowMap[p.MimeType]; if !ok { continue }
\* (the files of the model that have a workflow share one)
WorkflowFiles(db) == {f \in PendingFiles(db) : MimeType(f) \in DOMAIN workflowMap}

\* the workflows ProcessPending runs
Workflows(db) ==
    {workflowMap[m] : m \in {MimeType(f) : f \in PendingFiles(db)} \cap DOMAIN workflowMap}

\* Orchestrator.ProcessPending: the pending files that have a workflow go to
\* one run of it (run ids are taken in ascending order). A call that finds no
\* such file returns nil and changes nothing.
ProcessPending ==
    /\ ctx = "live"
    /\ WorkflowFiles(corpus) # {}
    /\ \E r \in RunIds :
        /\ \A q \in RunIds : rundb[q].status = "none" => r <= q
        /\ EngineRun(r, WorkflowFiles(corpus))
    /\ UNCHANGED proc

\* Orchestrator.ProcessPending with what it returns and what it writes to
\* stderr: nil when nothing is pending or no pending file has a workflow;
\* "workflow %s failed" when Run returned an error, and nil all the same
ProcessPendingCall ==
    /\ ctx = "live"
    /\ IF WorkflowFiles(corpus) = {}
       THEN /\ proc' = [ret |-> "nil", reported |-> {}]
            /\ UNCHANGED <<corpus, rundb, loc, mtime, clock, returned, mpc, mrun, mres, queue,
                           attached, eng, ctx, start, retried, store, ing, pipe, handle, txn, sexec, life, bus, srch>>
       ELSE \E r \in RunIds :
                /\ \A q \in RunIds : rundb[q].status = "none" => r <= q
                /\ EngineRun(r, WorkflowFiles(corpus))
                /\ proc' = [ret |-> "nil",
                            reported |-> IF r \in returned' THEN {} ELSE Workflows(corpus)]

\* ProcessPending after Run returned (run, nil): os.Rename(run.DBPath, queue/pending/...)
Enqueue(r) ==
    /\ r \in returned
    /\ loc' = [loc EXCEPT ![r] = "pending"]
    /\ returned' = returned \ {r}
    /\ UNCHANGED <<corpus, rundb, mtime, clock, mpc, mrun, mres, queue, attached, eng, ctx, start, retried, store, ing, pipe, proc, handle, txn, sexec, life, bus, srch>>

\* ------------------------------------------------------------------ merger
\* processBatch up to the loop: list pending/, sort by mtime, cut to batchSize
BatchList ==
    /\ mpc["batch"] = "idle"
    /\ queue = << >>
    /\ PendingRuns # {}
    /\ queue' = Batch(SortByMtime(PendingRuns))
    /\ UNCHANGED <<corpus, rundb, loc, mtime, clock, returned, mpc, mrun, mres, attached, eng, ctx, start, retried, store, ing, pipe, proc, handle, txn, sexec, life, bus, srch>>

\* mergeRun(path of r) up to the attach, entered by p. The stat succeeds (the
\* file exists); a failed attach returns at once, with no deferred detach.
MergeAttach(p, r) ==
    /\ mpc[p] = "idle"
    /\ loc[r] \in {"runs", "pending"}
    /\ IF AttachFails
       THEN /\ UNCHANGED <<mpc, mrun, mres, attached>>
            /\ IF p = "batch"
               THEN \* processBatch: os.Rename(dbFiles[i], failPath); continue
                    /\ loc' = [loc EXCEPT ![r] = "failed"]
                    /\ queue' = Tail(queue)
               ELSE \* ProcessOne returns the error
                    UNCHANGED <<loc, queue>>
       ELSE /\ attached' = r
            /\ mpc' = [mpc EXCEPT ![p] = "body"]
            /\ mrun' = [mrun EXCEPT ![p] = r]
            /\ UNCHANGED <<mres, loc, queue>>
    /\ UNCHANGED <<corpus, rundb, mtime, clock, returned, eng, ctx, start, retried, store, ing, pipe, proc, handle, txn, sexec, life, bus, srch>>

\* processBatch: mergeRun(ctx, dbFiles[i])
BatchMerge ==
    /\ queue # << >>
    /\ MergeAttach("batch", Head(queue))

\* Merger.ProcessOne(ctx, runDBPath) on the file of any run
ProcessOne(r) == MergeAttach("one", r)

\* mergeRun from the status check to the end of the transaction
MergeBody(p) ==
    /\ mpc[p] = "body"
    /\ LET res == IF ctx = "cancelled"
                  THEN \* the status query returns the context's error
                       [ret |-> "err", db |-> corpus]
                  ELSE MergeRunBody(corpus, mrun[p]) IN
        /\ corpus' = res.db
        /\ mres' = [mres EXCEPT ![p] = res.ret]
    /\ mpc' = [mpc EXCEPT ![p] = "finish"]
    /\ handle' = ConnFor(handle)
    /\ UNCHANGED <<rundb, loc, mtime, clock, returned, mrun, queue, attached, eng, ctx, start, retried, store, ing, pipe, proc, txn, sexec, life, bus, srch>>

\* mergeRun returns: the deferred Detach (its DETACH statement fails when the
\* context is cancelled, and the alias stays tracked); then, in processBatch,
\* the rename to failed/ on an error and to done/ otherwise. ProcessOne moves
\* nothing.
MergeFinish(p) ==
    /\ mpc[p] = "finish"
    /\ attached' = IF DetachFails THEN attached ELSE 0
    /\ mpc' = [mpc EXCEPT ![p] = "idle"]
    /\ mrun' = [mrun EXCEPT ![p] = 0]
    /\ mres' = [mres EXCEPT ![p] = "none"]
    /\ IF p = "batch"
       THEN /\ loc' = [loc EXCEPT ![mrun[p]] = IF mres[p] = "err" THEN "failed" ELSE "done"]
            /\ queue' = Tail(queue)
       ELSE UNCHANGED <<loc, queue>>
    /\ UNCHANGED <<corpus, rundb, mtime, clock, returned, eng, ctx, start, retried, store, ing, pipe, proc, handle, txn, sexec, life, bus, srch>>

\* a retry that renames into done/
RetryDestinationDone == "done"

\* RetryFailed: dstPath := filepath.Join(m.queueDir, entry.Name())
RetryDestination == "pending"

\* loc after RetryFailed: every file of failed/ renamed to the destination
RetryMoves == [r \in RunIds |-> IF loc[r] = "failed" THEN RetryDestination ELSE loc[r]]

\* Merger.RetryFailed: every file of failed/ is renamed back into pending/
RetryFailed ==
    /\ \E r \in RunIds : loc[r] = "failed"
    /\ loc' = RetryMoves
    /\ UNCHANGED <<corpus, rundb, mtime, clock, returned, mpc, mrun, mres, queue, attached, eng, ctx, start, retried, store, ing, pipe, proc, handle, txn, sexec, life, bus, srch>>

Next ==
    \/ \E f \in FileIds : Ingest(f)
    \/ ProcessPending
    \/ \E r \in RunIds : Enqueue(r)
    \/ BatchList
    \/ BatchMerge
    \/ \E r \in RunIds : ProcessOne(r)
    \/ \E p \in MergeProcs : MergeBody(p)
    \/ \E p \in MergeProcs : MergeFinish(p)
    \/ RetryFailed

Spec == Init /\ [][Next]_vars

\* ------------------------------------------------------------------ workers, then the merger
\* One worker per run id; worker w runs the workflow on the file set {w}, so
\* the file sets are pairwise disjoint. The files are already ingested. The
\* merger lists pending/ once every worker has finished and renamed its file.
WithFiles(db, F) ==
    [db EXCEPT !.raw_files = @ \cup {[id |-> f, status |-> "pending"] : f \in F}]

InitSerial ==
    /\ corpus \in {WithFiles(EmptyCorpus, RunIds), WithFiles(LegacyCorpus, RunIds)}
    /\ rundb = [r \in RunIds |-> NoRunDB]
    /\ loc = [r \in RunIds |-> "none"]
    /\ mtime = [r \in RunIds |-> 0]
    /\ clock = 0
    /\ returned = {}
    /\ mpc = [p \in MergeProcs |-> "idle"]
    /\ mrun = [p \in MergeProcs |-> 0]
    /\ mres = [p \in MergeProcs |-> "none"]
    /\ queue = << >>
    /\ attached = 0
    /\ eng = [r \in RunIds |-> NoCall]
    /\ ctx = "live"
    /\ start = [pc |-> "none", tick |-> FALSE]
    /\ retried = {}
    /\ store = StoreOf(corpus)
    /\ ing = [p \in Ingesters |-> NoIngest]
    /\ pipe = NoPipe
    /\ proc = NoProcess
    /\ handle = NoHandle
    /\ txn = NoTxn
    /\ sexec = NoExec
    /\ life = NoLife
    /\ bus = NoBus
    /\ srch = NoSearch

\* worker w: Engine.Run on its own files
WorkerRun(w) == EngineRun(w, {w}) /\ UNCHANGED proc

WorkersDone == \A w \in RunIds : rundb[w].status # "none" /\ w \notin returned

\* processBatch, started after the workers
BatchListAfterWorkers == WorkersDone /\ BatchList

NextSerial ==
    \/ \E w \in RunIds : WorkerRun(w)
    \/ \E r \in RunIds : Enqueue(r)
    \/ BatchListAfterWorkers
    \/ BatchMerge
    \/ MergeBody("batch")
    \/ MergeFinish("batch")

SpecSerial == InitSerial /\ [][NextSerial]_vars

\* ------------------------------------------------------------------ Engine.Run, step by step
\* on_empty of a step
OnEmptyModes == {"continue", "skip_remaining", "fail"}

\* step_order values of workflow_steps
StepOrders == 1..MaxSteps
\* names a workflow gives to the tables its steps create
Tables == {"step_a", "step_b"}
\* workflow_steps.source: the table the engine substitutes, or a named table
Sources == {"_input"} \cup Tables
\* the columns of a workflow_steps row that Run and executeStep look at
StepDefs == [source : Sources, output : Tables, on_empty : OnEmptyModes]
\* workflow_steps of one workflow: PRIMARY KEY (workflow_id, step_order)
WorkflowSteps == UNION {[S -> StepDefs] : S \in SUBSET StepOrders}

\* the Step that rows.Scan fills from the row with step_order k
StepOf(rows, k) ==
    [step_order |-> k, source |-> rows[k].source, output |-> rows[k].output,
     on_empty |-> rows[k].on_empty]

RECURSIVE StepsDescending(_, _)
\* the steps of a workflow taken in descending step_order
StepsDescending(rows, S) ==
    IF S = {} THEN << >>
    ELSE LET k == CHOOSE x \in S : \A y \in S : y <= x
         IN  <<StepOf(rows, k)>> \o StepsDescending(rows, S \ {k})

\* LoadWorkflow with the steps in the opposite order
LoadWorkflowDescending(rows) == StepsDescending(rows, DOMAIN rows)

RECURSIVE StepsOrdered(_, _)
\* SELECT ... FROM workflow_steps WHERE workflow_id = ? ORDER BY step_order
StepsOrdered(rows, S) ==
    IF S = {} THEN << >>
    ELSE <<StepOf(rows, Min(S))>> \o StepsOrdered(rows, S \ {Min(S)})

\* LoadWorkflow: w.Steps, appended in the order of the query
LoadWorkflow(rows) == StepsOrdered(rows, DOMAIN rows)

\* Status of the Run that Engine.Run creates, also the status initRunMeta inserts
RunStatusInit == "running"

\* a statement issued with the context: database/sql returns ctx.Err() without
\* running it once the context is cancelled; otherwise it can fail for a
\* reason of its own (fault)
ExecFails(fault) == ctx = "cancelled" \/ fault

\* executeStep: source := step.Source; "_input" after the first turn of the
\* loop is replaced by the previous step's output
SourceOf(step, prevOutput, hasPrev) ==
    IF step.source = "_input" /\ hasPrev THEN prevOutput ELSE step.source

TableNamed(db, name) == {t \in db.tables : t.name = name}

\* exec.RowsIn: RowCount(source) when source is neither "" nor "_input" and the
\* table exists, 0 otherwise
RowsIn(db, source) ==
    IF source \in {"", "_input"} \/ TableNamed(db, source) = {} THEN 0
    ELSE (CHOOSE t \in TableNamed(db, source) : TRUE).rows

\* the operation of a step, CREATE TABLE <output> AS SELECT ... FROM <source>,
\* fails when the context is cancelled, when <output> exists, when <source> is
\* a step table that does not exist, or for a reason of its own
OperationFails(db, step, source, fault) ==
    \/ ExecFails(fault)
    \/ TableNamed(db, step.output) # {}
    \/ source \in Tables /\ TableNamed(db, source) = {}

\* the on_empty switch without its fail case
OnEmptyFailNever(step, rows_out) == FALSE

\* if execution.RowsOut == 0 { switch step.OnEmpty { case OnEmptyFail: ...
OnEmptyFail(step, rows_out) == rows_out = 0 /\ step.on_empty = "fail"

\* Run returns: the run-db is closed, its file has its last modification time
RunReturns(r, status, ret) ==
    /\ eng' = [eng EXCEPT ![r].pc = "returned", ![r].status = status, ![r].ret = ret]
    /\ clock' = clock + 1
    /\ mtime' = [mtime EXCEPT ![r] = clock + 1]

\* e.updateRunStatus(ctx, runDB, run): UPDATE _run_meta SET status = ?,
\* finished_at = ? WHERE run_id = ?, one statement. The caller drops the
\* error, so a failed UPDATE leaves the row as it was
updateRunStatus(db, status, finished_at, fault) ==
    IF ExecFails(fault) THEN db
    ELSE [db EXCEPT !.status = status, !.finished_at = finished_at]

\* Run up to the loop over the steps: LoadWorkflow, the Run value,
\* db.CreateRun, initRunMeta, the attach of corpus. One call is followed.
RunStart(r) ==
    /\ \A q \in RunIds : eng[q].pc = "none" /\ rundb[q].status = "none" /\ r <= q
    /\ \/ \* LoadWorkflow fails: return nil, err before any run-db exists
          /\ ctx = "cancelled"
          /\ eng' = [eng EXCEPT ![r].pc = "returned", ![r].ret = "nil_err"]
          /\ UNCHANGED <<rundb, loc, mtime, clock>>
       \/ /\ ctx = "live"
          /\ loc' = [loc EXCEPT ![r] = "runs"]
          /\ \/ \E rows \in WorkflowSteps :
                  /\ rundb' = [rundb EXCEPT ![r].status = RunStatusInit]
                  /\ eng' = [eng EXCEPT ![r] =
                        [NoCall EXCEPT !.pc = "loop", !.steps = LoadWorkflow(rows),
                                       !.n = Len(LoadWorkflow(rows)), !.i = 1,
                                       !.status = RunStatusInit, !.att = TRUE]]
                  /\ UNCHANGED <<mtime, clock>>
             \/ \* initRunMeta fails: no row in _run_meta, return nil, err
                /\ UNCHANGED rundb
                /\ RunReturns(r, RunStatusInit, "nil_err")
             \/ \* the attach of corpus fails: return nil, err
                /\ rundb' = [rundb EXCEPT ![r].status = RunStatusInit]
                /\ RunReturns(r, RunStatusInit, "nil_err")
    /\ UNCHANGED <<corpus, returned, mpc, mrun, mres, queue, attached, ctx, start, retried, store, ing, pipe, proc, handle, txn, sexec, life, bus, srch>>

\* exec.RowsOut, _ = runDB.RowCount(ctx, step.Output): 0 when the query fails
RowCountOr0(rows, fault) == IF ExecFails(fault) THEN 0 ELSE rows

\* one turn of the loop: executeStep, logStepExecution, the on_empty switch;
\* a return runs the deferred Detach of corpus and then closes the run-db.
\* rows_out: whether the operation produced rows; opFault, countFault, logFault,
\* updFault: failures of the operation, of RowCount(step.Output), of the INSERT
\* into _step_executions and of the status UPDATE for reasons other than the
\* context. exec.RowsOut, _ = runDB.RowCount(...): a count that fails leaves 0
RunStep(r) ==
    /\ eng[r].pc = "loop" /\ eng[r].i <= eng[r].n
    /\ \E rows_out \in 0..1 : \E opFault \in BOOLEAN : \E countFault \in BOOLEAN :
       \E logFault \in BOOLEAN : \E updFault \in BOOLEAN :
        LET step == eng[r].steps[eng[r].i]
            RowsOut == RowCountOr0(rows_out, countFault)
            source == SourceOf(step, eng[r].last, eng[r].i > 1)
            call == [step_order |-> step.step_order, source |-> source]
            frame == [eng[r] EXCEPT !.ran = Append(@, call)]
            created == [rundb[r] EXCEPT
                        !.tables = @ \cup {[name |-> step.output, rows |-> rows_out]}]
            logged == [created EXCEPT
                        !.log = @ \cup {[step_order |-> step.step_order,
                                         rows_in |-> RowsIn(rundb[r], source),
                                         rows_out |-> RowsOut,
                                         output_table |-> step.output]}]
        IN  IF OperationFails(rundb[r], step, source, opFault)
            THEN \* run.Status = RunStatusFailed; e.updateRunStatus(...); return run, err
                 /\ ~logFault /\ ~countFault /\ rows_out = 0
                 /\ rundb' = [rundb EXCEPT ![r] =
                        updateRunStatus(@, "failed", eng[r].fin, updFault)]
                 /\ eng' = [eng EXCEPT ![r] =
                        [frame EXCEPT !.pc = "returned", !.status = "failed", !.ret = "run_err",
                                      !.att = DetachFails]]
                 /\ clock' = clock + 1
                 /\ mtime' = [mtime EXCEPT ![r] = clock + 1]
            ELSE IF ExecFails(logFault)
            THEN \* logStepExecution fails: return nil, err; no status update
                 /\ ~updFault
                 /\ rundb' = [rundb EXCEPT ![r] = created]
                 /\ eng' = [eng EXCEPT ![r] =
                        [frame EXCEPT !.pc = "returned", !.ret = "nil_err", !.att = DetachFails]]
                 /\ clock' = clock + 1
                 /\ mtime' = [mtime EXCEPT ![r] = clock + 1]
            ELSE IF OnEmptyFail(step, RowsOut)
            THEN /\ rundb' = [rundb EXCEPT ![r] =
                        updateRunStatus(logged, "failed", eng[r].fin, updFault)]
                 /\ eng' = [eng EXCEPT ![r] =
                        [frame EXCEPT !.pc = "returned", !.status = "failed", !.ret = "run_err",
                                      !.att = DetachFails]]
                 /\ clock' = clock + 1
                 /\ mtime' = [mtime EXCEPT ![r] = clock + 1]
            ELSE \* "skip_remaining": the break leaves the switch, the loop goes on
                 /\ ~updFault
                 /\ rundb' = [rundb EXCEPT ![r] = logged]
                 /\ eng' = [eng EXCEPT ![r] =
                        [frame EXCEPT !.i = @ + 1, !.last = step.output]]
                 /\ UNCHANGED <<mtime, clock>>
    /\ UNCHANGED <<corpus, loc, returned, mpc, mrun, mres, queue, attached, ctx, start, retried, store, ing, pipe, proc, handle, txn, sexec, life, bus, srch>>

\* Run with the failure paths falling through to the final status update
AfterLoopOrFailure(r) ==
    \/ eng[r].pc = "loop" /\ eng[r].i > eng[r].n
    \/ eng[r].pc = "returned" /\ eng[r].ret = "run_err"

\* the loop over workflow.Steps has ended
AfterLoop(r) == eng[r].pc = "loop" /\ eng[r].i > eng[r].n

\* Finalize: run.Status = RunStatusCompleted; run.FinishedAt = time.Now();
\* e.updateRunStatus(...); return run, nil (and the deferred Detach of corpus)
RunFinalize(r) ==
    /\ AfterLoop(r)
    /\ \E updFault \in BOOLEAN :
        rundb' = [rundb EXCEPT ![r] =
            updateRunStatus(@, "completed", clock + 1, updFault)]
    /\ eng' = [eng EXCEPT ![r].pc = "returned", ![r].status = "completed",
                          ![r].ret = "run", ![r].fin = clock + 1, ![r].att = DetachFails]
    /\ clock' = clock + 1
    /\ mtime' = [mtime EXCEPT ![r] = clock + 1]
    /\ UNCHANGED <<corpus, loc, returned, mpc, mrun, mres, queue, attached, ctx, start, retried, store, ing, pipe, proc, handle, txn, sexec, life, bus, srch>>

\* SIGINT or SIGTERM: main's goroutine calls cancel()
Cancel ==
    /\ ctx = "live"
    /\ ctx' = "cancelled"
    /\ UNCHANGED <<corpus, rundb, loc, mtime, clock, returned, mpc, mrun, mres, queue,
                   attached, eng, start, retried, store, ing, pipe, proc, handle, txn, sexec, life, bus, srch>>

NextEngine ==
    \/ \E r \in RunIds : RunStart(r)
    \/ \E r \in RunIds : RunStep(r)
    \/ \E r \in RunIds : RunFinalize(r)
    \/ Cancel

SpecEngine == Init /\ [][NextEngine]_vars

\* ------------------------------------------------------------------ the commands of the CLI
\* cmdProcess after ProcessPending: merger.New, m.Status(), and for every
\* pending run-db one turn of a loop whose body only polls ctx.Done(). The
\* merger is not started and nothing is merged or moved.
CmdProcessMerge ==
    /\ ctx = "live"
    /\ PendingRuns # {}
    /\ UNCHANGED vars

\* raglite ingest, raglite process (ProcessPending, the rename of each run-db
\* that Run returned, the merge loop); no command calls Merger.Start,
\* ProcessOne or RetryFailed
NextCLI ==
    \/ \E f \in FileIds : Ingest(f)
    \/ ProcessPending
    \/ \E r \in RunIds : Enqueue(r)
    \/ CmdProcessMerge

\* every command that is started runs to its end
SpecCLI == Init /\ [][NextCLI]_vars /\ WF_vars(NextCLI)

\* ------------------------------------------------------------------ the merger and cancellation
\* mergeRun's body when the context is cancelled while the transaction is in
\* flight: the status check and the gate have passed and BeginTx has returned;
\* the next statement on tx returns the context's error, database/sql rolls
\* the transaction back, and mergeRun returns the error
MergeInterrupted(p) ==
    /\ mpc[p] = "body"
    /\ ctx = "live"
    /\ StatusCompleted(mrun[p]) /\ ~AlreadyMerged(corpus, mrun[p])
    /\ ctx' = "cancelled"
    /\ mres' = [mres EXCEPT ![p] = "err"]
    /\ mpc' = [mpc EXCEPT ![p] = "finish"]
    /\ UNCHANGED <<corpus, rundb, loc, mtime, clock, returned, mrun, queue, attached, eng, start, retried, store, ing, pipe, proc, handle, txn, sexec, life, bus, srch>>

\* orchestrator and Merger.Start's batch loop under a context that main
\* cancels on SIGINT or SIGTERM
NextShutdown ==
    \/ \E f \in FileIds : Ingest(f)
    \/ ProcessPending
    \/ \E r \in RunIds : Enqueue(r)
    \/ BatchList
    \/ BatchMerge
    \/ MergeBody("batch")
    \/ MergeInterrupted("batch")
    \/ MergeFinish("batch")
    \/ Cancel

SpecShutdown == Init /\ [][NextShutdown]_vars

\* ------------------------------------------------------------------ Merger.Start
\* Start's loop is at its select: no batch in progress
AtSelect == start.pc = "loop" /\ queue = << >> /\ mpc["batch"] = "idle"

\* Start up to the loop: m.running = true, time.NewTicker(m.interval)
StartMerger ==
    /\ start.pc = "none"
    /\ start' = [pc |-> "loop", tick |-> FALSE]
    /\ UNCHANGED <<corpus, rundb, loc, mtime, clock, returned, mpc, mrun, mres, queue,
                   attached, eng, ctx, retried, store, ing, pipe, proc, handle, txn, sexec, life, bus, srch>>

\* the ticker fires: ticker.C has room for one tick, a tick that finds it full
\* is dropped
Tick ==
    /\ start.pc = "loop"
    /\ ~start.tick
    /\ start' = [start EXCEPT !.tick = TRUE]
    /\ UNCHANGED <<corpus, rundb, loc, mtime, clock, returned, mpc, mrun, mres, queue,
                   attached, eng, ctx, retried, store, ing, pipe, proc, handle, txn, sexec, life, bus, srch>>

\* select: case <-ticker.C can proceed. When ctx.Done() can proceed as well the
\* runtime chooses one of the two at random.
TickerReady == start.tick

\* case <-ticker.C: m.processBatch(ctx) up to its loop (an empty listing returns
\* at once, back to the select)
StartBatch ==
    /\ AtSelect
    /\ TickerReady
    /\ start' = [start EXCEPT !.tick = FALSE]
    /\ queue' = Batch(SortByMtime(PendingRuns))
    /\ UNCHANGED <<corpus, rundb, loc, mtime, clock, returned, mpc, mrun, mres,
                   attached, eng, ctx, retried, store, ing, pipe, proc, handle, txn, sexec, life, bus, srch>>

\* case <-ctx.Done(): return ctx.Err()
StartReturn ==
    /\ AtSelect
    /\ ctx = "cancelled"
    /\ start' = [start EXCEPT !.pc = "returned"]
    /\ UNCHANGED <<corpus, rundb, loc, mtime, clock, returned, mpc, mrun, mres, queue,
                   attached, eng, ctx, retried, store, ing, pipe, proc, handle, txn, sexec, life, bus, srch>>

\* orchestrator and a started merger (Stop is never called) under a context
\* that main cancels on SIGINT or SIGTERM
NextStart ==
    \/ \E f \in FileIds : Ingest(f)
    \/ ProcessPending
    \/ \E r \in RunIds : Enqueue(r)
    \/ StartMerger
    \/ Tick
    \/ StartBatch
    \/ StartReturn
    \/ BatchMerge
    \/ MergeBody("batch")
    \/ MergeFinish("batch")
    \/ Cancel

SpecStart == Init /\ [][NextStart]_vars

\* ------------------------------------------------------------------ RetryFailed
\* Merger.RetryFailed, with the files it moved remembered
RetryFailedRemembered ==
    /\ \E r \in RunIds : loc[r] = "failed"
    /\ loc' = RetryMoves
    /\ retried' = retried \cup {r \in RunIds : loc[r] = "failed"}
    /\ UNCHANGED <<corpus, rundb, mtime, clock, returned, mpc, mrun, mres, queue,
                   attached, eng, ctx, start, store, ing, pipe, proc, handle, txn, sexec, life, bus, srch>>

\* workers on files already ingested; then the batch loop, ProcessOne and
\* RetryFailed
NextRetry ==
    \/ \E w \in RunIds : WorkerRun(w)
    \/ \E r \in RunIds : Enqueue(r)
    \/ BatchListAfterWorkers
    \/ BatchMerge
    \/ \E r \in RunIds : ProcessOne(r)
    \/ \E p \in MergeProcs : MergeBody(p)
    \/ \E p \in MergeProcs : MergeFinish(p)
    \/ RetryFailedRemembered

SpecRetry == InitSerial /\ [][NextRetry]_vars

\* ------------------------------------------------------------------ Orchestrator.Ingest, step by step
\* Ingest up to the lookup: the content is hashed to f, then SELECT id FROM
\* raw_files WHERE id = ?. Only err == nil returns the id; sql.ErrNoRows, the
\* error of a cancelled context and any other error of the query all go on to
\* the copy
IngestLookup(p, f) ==
    /\ ing[p].pc = "idle"
    /\ \E fault \in BOOLEAN :
        ing' = [ing EXCEPT ![p] =
            IF HasFile(corpus, f) /\ ~ExecFails(fault)
            THEN [pc |-> "idle", f |-> f, had |-> TRUE, ret |-> "id"]
            ELSE [pc |-> "copy", f |-> f, had |-> HasFile(corpus, f), ret |-> "none"]]
    /\ UNCHANGED <<corpus, rundb, loc, mtime, clock, returned, mpc, mrun, mres, queue,
                   attached, eng, ctx, start, retried, store, pipe, proc, handle, txn, sexec, life, bus, srch>>

\* os.MkdirAll, then copyFile(path, externalPath): os.Create truncates a file
\* that is there; an error of io.Copy or Sync returns with the file left as
\* far as it was written
IngestCopy(p) ==
    /\ ing[p].pc = "copy"
    /\ \E outcome \in {"mkdir_err", "copy_err", "copied"} :
        /\ store' = [store EXCEPT ![ing[p].f] =
                IF outcome = "mkdir_err" THEN @
                ELSE IF outcome = "copy_err" THEN "partial" ELSE "stored"]
        /\ ing' = [ing EXCEPT ![p] =
                IF outcome = "copied" THEN [@ EXCEPT !.pc = "insert"]
                ELSE [@ EXCEPT !.pc = "idle", !.ret = "err"]]
    /\ UNCHANGED <<corpus, rundb, loc, mtime, clock, returned, mpc, mrun, mres, queue,
                   attached, eng, ctx, start, retried, pipe, proc, handle, txn, sexec, life, bus, srch>>

\* if err != nil { os.Remove(externalPath); return "", ... }
RemoveOnInsertError(st, f) == [st EXCEPT ![f] = "absent"]

\* INSERT INTO raw_files (id, ...) VALUES (?, ..., 'pending'): fails on a
\* cancelled context, on an id that has a row (PRIMARY KEY) or for a reason of
\* its own; then the audit_log row
IngestInsert(p) ==
    /\ ing[p].pc = "insert"
    /\ \E fault \in BOOLEAN :
        LET f == ing[p].f IN
        IF ExecFails(fault) \/ HasFile(corpus, f)
        THEN /\ store' = RemoveOnInsertError(store, f)
             /\ ing' = [ing EXCEPT ![p].pc = "idle", ![p].ret = "err"]
             /\ UNCHANGED corpus
        ELSE /\ corpus' = [corpus EXCEPT
                    !.raw_files = @ \cup {[id |-> f, status |-> "pending"]},
                    !.audit_log = @ \cup
                        {[actor |-> "orchestrator", action |-> "ingest", target |-> f]}]
             /\ ing' = [ing EXCEPT ![p].pc = "idle", ![p].ret = "id"]
             /\ UNCHANGED store
    /\ UNCHANGED <<rundb, loc, mtime, clock, returned, mpc, mrun, mres, queue,
                   attached, eng, ctx, start, retried, pipe, proc, handle, txn, sexec, life, bus, srch>>

\* callers of Ingest (raglite ingest started more than once, IngestDir) under
\* a context that main cancels on SIGINT or SIGTERM
NextIngest ==
    \/ \E p \in Ingesters : \E f \in ContentIds \ {GoFile} : IngestLookup(p, f)
    \/ \E p \in Ingesters : IngestCopy(p)
    \/ \E p \in Ingesters : IngestInsert(p)
    \/ Cancel

SpecIngest == Init /\ [][NextIngest]_vars

\* ------------------------------------------------------------------ garbage collection
\* largest maxAge given to raglite gc, in ticks of the clock
MaxAge == 2

\* the worker's process is killed inside Run's loop: no deferred call and no
\* status update runs, the run-db file stays as it was last written
Kill(r) ==
    /\ eng[r].pc = "loop"
    /\ eng' = [eng EXCEPT ![r].pc = "killed"]
    /\ UNCHANGED <<corpus, rundb, loc, mtime, clock, returned, mpc, mrun, mres, queue,
                   attached, ctx, start, retried, store, ing, pipe, proc, handle, txn, sexec, life, bus, srch>>

\* ProcessPending after the Run followed step by step returned (run, nil):
\* os.Rename(run.DBPath, queue/pending/...)
EnqueueRun(r) ==
    /\ eng[r].pc = "returned" /\ eng[r].ret = "run"
    /\ loc[r] = "runs"
    /\ loc' = [loc EXCEPT ![r] = "pending"]
    /\ UNCHANGED <<corpus, rundb, mtime, clock, returned, mpc, mrun, mres, queue,
                   attached, eng, ctx, start, retried, store, ing, pipe, proc, handle, txn, sexec, life, bus, srch>>

\* a GarbageCollect that lists every directory of the queue
GCCandidatesAnywhere == {r \in RunIds : loc[r] \in {"runs", "pending", "failed", "done"}}

\* os.ReadDir(m.doneDir): the files GarbageCollect looks at
GCCandidates == {r \in RunIds : loc[r] = "done"}

\* Merger.GarbageCollect(ctx, maxAge): cutoff := time.Now().Add(-maxAge); every
\* file of done/ whose ModTime is before the cutoff is removed
GarbageCollect(maxAge) ==
    /\ GCCandidates # {}
    /\ loc' = [r \in RunIds |->
                IF r \in GCCandidates /\ mtime[r] < clock + 1 - maxAge
                THEN "removed" ELSE loc[r]]
    /\ UNCHANGED <<corpus, rundb, mtime, clock, returned, mpc, mrun, mres, queue,
                   attached, eng, ctx, start, retried, store, ing, pipe, proc, handle, txn, sexec, life, bus, srch>>

\* a worker whose process can be killed, the batch loop, and raglite gc
NextGC ==
    \/ \E r \in RunIds : RunStart(r)
    \/ \E r \in RunIds : RunStep(r)
    \/ \E r \in RunIds : RunFinalize(r)
    \/ \E r \in RunIds : Kill(r)
    \/ \E r \in RunIds : EnqueueRun(r)
    \/ BatchList
    \/ BatchMerge
    \/ MergeBody("batch")
    \/ MergeFinish("batch")
    \/ \E maxAge \in 0..MaxAge : GarbageCollect(maxAge)

\* every command that can do something is run again and again
SpecGC == Init /\ [][NextGC]_vars /\ WF_vars(NextGC)

\* workers on disjoint files, the batch loop, and raglite gc at any moment
NextSweep ==
    \/ \E w \in RunIds : WorkerRun(w)
    \/ \E r \in RunIds : Enqueue(r)
    \/ BatchList
    \/ BatchMerge
    \/ MergeBody("batch")
    \/ MergeFinish("batch")
    \/ \E maxAge \in 0..MaxAge : GarbageCollect(maxAge)

SpecSweep == InitSerial /\ [][NextSweep]_vars

\* ------------------------------------------------------------------ hash, deduplicate, finalize
\* The tail of the chunking workflows' tail (sql/workflows: hash_content,
\* deduplicate, finalize) and of the chunk insert, with the columns id, content
\* and hash of every row.

\* a block of text an extractor cuts out: <<c, pad>>, the trimmed text c
\* followed by pad bytes of white space
Texts == (1..MaxContent) \X (0..MaxPad)

\* strings.TrimSpace of a block
TrimSpace(t) == t[1]

\* SHA-256: distinct inputs have distinct digests, none of them all zero
SHA256(x) == <<"sha256", x>>

\* hex(zeroblob(32)): sixty-four zeros
ZeroBlobHex == <<"hex", 0>>

\* PDFExtractor.parseText: the id is the digest of the block as cut, the
\* content is the block trimmed
Segment(t) == [id |-> SHA256(t), content |-> TrimSpace(t)]

\* executeHash as SHA-256 over the named columns
executeHashSHA256(rows) ==
    {[id |-> row.id, content |-> row.content, hash |-> SHA256(row.content)] : row \in rows}

\* executeHash: CREATE TABLE out AS SELECT *, hex(zeroblob(32)) AS hash FROM source
executeHash(rows) ==
    {[id |-> row.id, content |-> row.content, hash |-> ZeroBlobHex] : row \in rows}

\* the deduplicate step: hash NOT IN (SELECT hash FROM corpus.chunks)
Deduplicate(rows, chunks) == {row \in rows : ~\E c \in chunks : c.hash = row.hash}

\* INSERT OR IGNORE INTO chunks ... FROM run_src._output: chunks.id is the
\* primary key and the only uniqueness constraint (idx_chunks_hash is a plain index)
InsertOrIgnoreChunks(chunks, rows) ==
    chunks \cup {row \in rows : ~\E c \in chunks : c.id = row.id}

\* the external step: the extractor's segments of the run's files
PipeExternal(T) ==
    /\ pipe.pc = "none"
    /\ T # {}
    /\ pipe' = [pipe EXCEPT !.pc = "segments", !.table = {Segment(t) : t \in T}]
    /\ UNCHANGED <<corpus, rundb, loc, mtime, clock, returned, mpc, mrun, mres, queue,
                   attached, eng, ctx, start, retried, store, ing, proc, handle, txn, sexec, life, bus, srch>>

\* the hash step
PipeHash ==
    /\ pipe.pc = "segments"
    /\ pipe' = [pipe EXCEPT !.pc = "hashed", !.table = executeHash(@)]
    /\ UNCHANGED <<corpus, rundb, loc, mtime, clock, returned, mpc, mrun, mres, queue,
                   attached, eng, ctx, start, retried, store, ing, proc, handle, txn, sexec, life, bus, srch>>

\* the deduplicate step (a filter; on_empty is continue)
PipeDeduplicate ==
    /\ pipe.pc = "hashed"
    /\ pipe' = [pipe EXCEPT !.pc = "unique", !.table = Deduplicate(@, pipe.chunks)]
    /\ UNCHANGED <<corpus, rundb, loc, mtime, clock, returned, mpc, mrun, mres, queue,
                   attached, eng, ctx, start, retried, store, ing, proc, handle, txn, sexec, life, bus, srch>>

\* the finalize step (project * into _output) and the merge of the run-db
PipeMerge ==
    /\ pipe.pc = "unique"
    /\ pipe' = [pc |-> "none", table |-> {},
                chunks |-> InsertOrIgnoreChunks(pipe.chunks, pipe.table)]
    /\ UNCHANGED <<corpus, rundb, loc, mtime, clock, returned, mpc, mrun, mres, queue,
                   attached, eng, ctx, start, retried, store, ing, proc, handle, txn, sexec, life, bus, srch>>

NextPipe ==
    \/ \E T \in SUBSET Texts : PipeExternal(T)
    \/ PipeHash
    \/ PipeDeduplicate
    \/ PipeMerge

SpecPipe == Init /\ [][NextPipe]_vars

\* ------------------------------------------------------------------ unmapped MIME types
\* raglite ingest of .pdf and .go files, raglite process, and the batch loop
NextMime ==
    \/ \E f \in FileIds \cup {GoFile} : Ingest(f)
    \/ ProcessPendingCall
    \/ \E r \in RunIds : Enqueue(r)
    \/ BatchList
    \/ BatchMerge
    \/ MergeBody("batch")
    \/ MergeFinish("batch")

SpecMime == Init /\ [][NextMime]_vars

\* ------------------------------------------------------------------ DB.Attach, DB.Detach
\* aliases callers attach under (merger: run_src; engine: corpus)
Aliases == {"run_src", "corpus"}

\* time passes on the connection
HandleTick ==
    /\ handle.age < ConnMaxLifetime
    /\ handle' = [handle EXCEPT !.age = @ + 1]
    /\ UNCHANGED <<corpus, rundb, loc, mtime, clock, returned, mpc, mrun, mres, queue,
                   attached, eng, ctx, start, retried, store, ing, pipe, proc, txn, sexec, life, bus, srch>>

\* DB.Attach(ctx, path, alias). fault: the statement fails for a reason of its
\* own (cancelled context, unreadable file)
HandleAttach(alias, fault) ==
    /\ IF alias \in handle.attached
       THEN handle' = [handle EXCEPT !.last = [op |-> "attach", alias |-> alias, err |-> TRUE]]
       ELSE LET h == ConnFor(handle)
            IN  IF fault \/ alias \in h.schemas
                THEN handle' = [h EXCEPT !.last = [op |-> "attach", alias |-> alias, err |-> TRUE]]
                ELSE handle' = [h EXCEPT !.schemas = @ \cup {alias},
                                         !.attached = @ \cup {alias},
                                         !.last = [op |-> "attach", alias |-> alias, err |-> FALSE]]
    /\ UNCHANGED <<corpus, rundb, loc, mtime, clock, returned, mpc, mrun, mres, queue,
                   attached, eng, ctx, start, retried, store, ing, pipe, proc, txn, sexec, life, bus, srch>>

\* DB.Detach(ctx, alias); DETACH of a schema the connection does not have fails
HandleDetach(alias, fault) ==
    /\ IF alias \notin handle.attached
       THEN handle' = [handle EXCEPT !.last = [op |-> "detach", alias |-> alias, err |-> TRUE]]
       ELSE LET h == ConnFor(handle)
            IN  IF fault \/ alias \notin h.schemas
                THEN handle' = [h EXCEPT !.last = [op |-> "detach", alias |-> alias, err |-> TRUE]]
                ELSE handle' = [h EXCEPT !.schemas = @ \ {alias},
                                         !.attached = @ \ {alias},
                                         !.last = [op |-> "detach", alias |-> alias, err |-> FALSE]]
    /\ UNCHANGED <<corpus, rundb, loc, mtime, clock, returned, mpc, mrun, mres, queue,
                   attached, eng, ctx, start, retried, store, ing, pipe, proc, txn, sexec, life, bus, srch>>

NextHandle ==
    \/ HandleTick
    \/ \E alias \in Aliases : \E fault \in BOOLEAN : HandleAttach(alias, fault)
    \/ \E alias \in Aliases : \E fault \in BOOLEAN : HandleDetach(alias, fault)

SpecHandle == Init /\ [][NextHandle]_vars

\* ------------------------------------------------------------------ DB.Transaction step by step
\* rows fn can write
TxnRows == 1..MaxRows

\* fmt.Errorf("%v (original error: %v)"): both errors as text, fn's error not wrapped
ErrorAfterRollbackUnwrapped(rbFails) == IF rbFails THEN {"rollback"} ELSE {"fn"}

\* fn failed: err when the rollback succeeded, otherwise
\* fmt.Errorf("rollback failed: %v (original error: %w)", rbErr, err)
ErrorAfterRollback(rbFails) == IF rbFails THEN {"rollback", "fn"} ELSE {"fn"}

\* db.BeginTx(ctx, nil); on an error fn is not called
TxnBegin(fails) ==
    /\ txn.pc = "idle"
    /\ txn' = IF fails
              THEN [txn EXCEPT !.err = {"begin"}, !.committed = FALSE, !.fnErr = FALSE]
              ELSE [txn EXCEPT !.pc = "fn", !.tx = {}, !.err = {}, !.committed = FALSE,
                               !.fnErr = FALSE]
    /\ UNCHANGED <<corpus, rundb, loc, mtime, clock, returned, mpc, mrun, mres, queue,
                   attached, eng, ctx, start, retried, store, ing, pipe, proc, handle, sexec, life, bus, srch>>

\* fn(tx): writes the rows W inside the transaction and returns nil or an error
TxnFn(W, fails) ==
    /\ txn.pc = "fn"
    /\ txn' = [txn EXCEPT !.tx = W, !.fnErr = fails,
                          !.pc = IF fails THEN "rollback" ELSE "commit"]
    /\ UNCHANGED <<corpus, rundb, loc, mtime, clock, returned, mpc, mrun, mres, queue,
                   attached, eng, ctx, start, retried, store, ing, pipe, proc, handle, sexec, life, bus, srch>>

\* tx.Rollback() after fn's error; nothing fn wrote is committed
TxnRollback(fails) ==
    /\ txn.pc = "rollback"
    /\ txn' = [txn EXCEPT !.pc = "idle", !.tx = {}, !.err = ErrorAfterRollback(fails)]
    /\ UNCHANGED <<corpus, rundb, loc, mtime, clock, returned, mpc, mrun, mres, queue,
                   attached, eng, ctx, start, retried, store, ing, pipe, proc, handle, sexec, life, bus, srch>>

\* tx.Commit() after fn returned nil; a failed commit commits nothing and
\* returns "commit transaction: ..."
TxnCommit(fails) ==
    /\ txn.pc = "commit"
    /\ txn' = IF fails
              THEN [txn EXCEPT !.pc = "idle", !.tx = {}, !.err = {"commit"}]
              ELSE [txn EXCEPT !.pc = "idle", !.tx = {}, !.db = @ \cup txn.tx,
                               !.committed = TRUE]
    /\ UNCHANGED <<corpus, rundb, loc, mtime, clock, returned, mpc, mrun, mres, queue,
                   attached, eng, ctx, start, retried, store, ing, pipe, proc, handle, sexec, life, bus, srch>>

NextTxn ==
    \/ \E fails \in BOOLEAN : TxnBegin(fails)
    \/ \E W \in SUBSET TxnRows : \E fails \in BOOLEAN : TxnFn(W, fails)
    \/ \E fails \in BOOLEAN : TxnRollback(fails)
    \/ \E fails \in BOOLEAN : TxnCommit(fails)

SpecTxn == Init /\ [][NextTxn]_vars

\* ------------------------------------------------------------------ executeStep: row accounting
\* if exec.RowsIn > 0 { exec.DeltaScore = 1.0 - float64(exec.RowsOut)/float64(exec.RowsIn) }
\* as an exact quotient; DeltaScore keeps its zero value when RowsIn is 0
DeltaScore(rows_in, rows_out) ==
    IF rows_in > 0 THEN Quotient(rows_in - rows_out, rows_in) ELSE Quotient(0, 1)

\* executeStep up to the score: RowsIn and RowsOut as counted
ExecCount(rows_in, rows_out) ==
    /\ sexec.pc = "new"
    /\ sexec' = [sexec EXCEPT !.pc = "counted", !.rows_in = rows_in, !.rows_out = rows_out]
    /\ UNCHANGED <<corpus, rundb, loc, mtime, clock, returned, mpc, mrun, mres, queue,
                   attached, eng, ctx, start, retried, store, ing, pipe, proc, handle, txn, life, bus, srch>>

\* Calculate delta; return exec, nil
ExecDelta ==
    /\ sexec.pc = "counted"
    /\ sexec' = [sexec EXCEPT !.pc = "returned",
                              !.delta_score = DeltaScore(sexec.rows_in, sexec.rows_out)]
    /\ UNCHANGED <<corpus, rundb, loc, mtime, clock, returned, mpc, mrun, mres, queue,
                   attached, eng, ctx, start, retried, store, ing, pipe, proc, handle, txn, life, bus, srch>>

NextDelta ==
    \/ \E rows_in \in 0..MaxCount : \E rows_out \in 0..MaxCount : ExecCount(rows_in, rows_out)
    \/ ExecDelta

SpecDelta == Init /\ [][NextDelta]_vars

\* ------------------------------------------------------------------ Merger.Start, Merger.Stop
\* Start(ctx) by caller c up to the loop: "merger already running" when the
\* flag is set, else m.running = true and the loop is entered
MergerStart(c, callCtx) ==
    /\ ~life.panicked
    /\ life.st[c].pc = "idle"
    /\ IF life.running
       THEN life' = [life EXCEPT !.st[c] = [pc |-> "idle", ctx |-> callCtx, ticked |-> FALSE,
                                            ret |-> "already running"]]
       ELSE life' = [life EXCEPT !.running = TRUE,
                                 !.st[c] = [pc |-> "loop", ctx |-> callCtx, ticked |-> FALSE,
                                            ret |-> "none"]]
    /\ UNCHANGED <<corpus, rundb, loc, mtime, clock, returned, mpc, mrun, mres, queue,
                   attached, eng, ctx, start, retried, store, ing, pipe, proc, handle, txn, sexec, bus, srch>>

\* the context caller c passed is cancelled while its loop runs
MergerCancel(c) ==
    /\ ~life.panicked
    /\ life.st[c].pc = "loop"
    /\ life.st[c].ctx = "live"
    /\ life' = [life EXCEPT !.st[c].ctx = "done"]
    /\ UNCHANGED <<corpus, rundb, loc, mtime, clock, returned, mpc, mrun, mres, queue,
                   attached, eng, ctx, start, retried, store, ing, pipe, proc, handle, txn, sexec, bus, srch>>

\* select, case <-ctx.Done(): return ctx.Err(); m.running is not written
MergerLoopCtx(c) ==
    /\ ~life.panicked
    /\ life.st[c].pc = "loop"
    /\ life.st[c].ctx = "done"
    /\ life' = [life EXCEPT !.st[c].pc = "idle", !.st[c].ret = "ctx.Err"]
    /\ UNCHANGED <<corpus, rundb, loc, mtime, clock, returned, mpc, mrun, mres, queue,
                   attached, eng, ctx, start, retried, store, ing, pipe, proc, handle, txn, sexec, bus, srch>>

\* select, case <-m.stopCh: return nil; a closed channel is always ready
MergerLoopStop(c) ==
    /\ ~life.panicked
    /\ life.st[c].pc = "loop"
    /\ life.stopCh = "closed"
    /\ life' = [life EXCEPT !.st[c].pc = "idle", !.st[c].ret = "nil"]
    /\ UNCHANGED <<corpus, rundb, loc, mtime, clock, returned, mpc, mrun, mres, queue,
                   attached, eng, ctx, start, retried, store, ing, pipe, proc, handle, txn, sexec, bus, srch>>

\* select, case <-ticker.C: processBatch, its error printed; select takes any
\* ready case, so a tick can win over a cancelled ctx or a closed stopCh
MergerLoopTick(c) ==
    /\ ~life.panicked
    /\ life.st[c].pc = "loop"
    /\ ~life.st[c].ticked
    /\ life' = [life EXCEPT !.st[c].ticked = TRUE]
    /\ UNCHANGED <<corpus, rundb, loc, mtime, clock, returned, mpc, mrun, mres, queue,
                   attached, eng, ctx, start, retried, store, ing, pipe, proc, handle, txn, sexec, bus, srch>>

\* Stop: under the mutex, if m.running { close(m.stopCh); m.running = false }.
\* stopCh is made once, in New: closing it a second time panics
MergerStop ==
    /\ ~life.panicked
    /\ life' = IF ~life.running THEN [life EXCEPT !.stop = "nothing"]
               ELSE IF life.stopCh = "closed"
                    THEN [life EXCEPT !.panicked = TRUE, !.stop = "panic"]
                    ELSE [life EXCEPT !.stopCh = "closed", !.running = FALSE, !.stop = "closed"]
    /\ UNCHANGED <<corpus, rundb, loc, mtime, clock, returned, mpc, mrun, mres, queue,
                   attached, eng, ctx, start, retried, store, ing, pipe, proc, handle, txn, sexec, bus, srch>>

NextLife ==
    \/ \E c \in Starters : \E callCtx \in {"live", "done"} : MergerStart(c, callCtx)
    \/ \E c \in Starters : MergerCancel(c)
    \/ \E c \in Starters : MergerLoopCtx(c)
    \/ \E c \in Starters : MergerLoopStop(c)
    \/ \E c \in Starters : MergerLoopTick(c)
    \/ MergerStop

SpecLife == Init /\ [][NextLife]_vars

\* ------------------------------------------------------------------ horosbus: SubmitTask, ClaimTask
\* WHERE zone = ? AND status = 'pending', on the table as a connection reads it
PendingIn(tasks, zone) ==
    {t \in TaskIds : tasks[t].status = "pending" /\ tasks[t].zone = zone}

\* ORDER BY created_at ASC LIMIT 1: a row with the smallest created_at; among
\* equal values SQLite may return any
FirstPending(tasks, zone) ==
    {t \in PendingIn(tasks, zone) :
        \A u \in PendingIn(tasks, zone) : tasks[t].created_at <= tasks[u].created_at}

\* a read transaction cannot become a write transaction once another
\* connection has committed since its first read (SQLITE_BUSY_SNAPSHOT)
SnapshotNeverStale(k) == FALSE
SnapshotStale(k) == bus.w[k].stale

\* a commit by any connection: every read transaction that is open reads an
\* older table from now on
Committed(b) ==
    [b EXCEPT !.w = [k \in Workers |->
                        IF b.w[k].pc = "selected" THEN [b.w[k] EXCEPT !.stale = TRUE] ELSE b.w[k]]]

\* a call of ClaimTask by k has returned: the deferred Rollback ends the
\* transaction, the write lock is released if k held it
ClaimReturns(k) ==
    [bus EXCEPT !.w[k] = NoClaim, !.writer = IF bus.writer = k THEN 0 ELSE @]

\* SubmitTask: one INSERT in autocommit with a fresh uuid and created_at =
\* time.Now().Unix(). While another connection writes, and on any other
\* error, it returns "insert task" and nothing has changed
SubmitTask(zone, now) ==
    /\ bus.writer = 0
    /\ \E t \in TaskIds :
        /\ bus.tasks[t].status = "none"
        /\ \A u \in TaskIds : bus.tasks[u].status = "none" => t <= u
        /\ bus' = Committed([bus EXCEPT !.tasks[t] = [status |-> "pending", zone |-> zone,
                                                      created_at |-> now, worker_id |-> 0]])
    /\ UNCHANGED <<corpus, rundb, loc, mtime, clock, returned, mpc, mrun, mres, queue, attached,
                   eng, ctx, start, retried, store, ing, pipe, proc, handle, txn, sexec, life, srch>>

\* ClaimTask(zone, k) up to the Scan: BeginTx, then the SELECT, which reads the
\* last committed table and keeps reading it until the transaction ends.
\* sql.ErrNoRows returns (nil, nil) and any other error returns it: the call
\* is over and nothing has changed
ClaimSelect(k, zone) ==
    /\ bus.w[k].pc = "idle"
    /\ \E t \in FirstPending(bus.tasks, zone) :
            bus' = [bus EXCEPT !.w[k] = [pc |-> "selected", task |-> t, stale |-> FALSE]]
    /\ UNCHANGED <<corpus, rundb, loc, mtime, clock, returned, mpc, mrun, mres, queue, attached,
                   eng, ctx, start, retried, store, ing, pipe, proc, handle, txn, sexec, life, srch>>

\* the UPDATE ... WHERE task_id = ?: the transaction asks for the write lock.
\* It fails when another connection holds it or has committed since the SELECT,
\* and ClaimTask returns the error
ClaimUpdate(k, fault) ==
    /\ bus.w[k].pc = "selected"
    /\ bus' = IF fault \/ bus.writer # 0 \/ SnapshotStale(k)
              THEN ClaimReturns(k)
              ELSE [bus EXCEPT !.writer = k, !.w[k].pc = "updated"]
    /\ UNCHANGED <<corpus, rundb, loc, mtime, clock, returned, mpc, mrun, mres, queue, attached,
                   eng, ctx, start, retried, store, ing, pipe, proc, handle, txn, sexec, life, srch>>

\* tx.Commit(): the row becomes running with worker_id = k and the task is
\* returned with WorkerID = k; a failed commit returns the error
ClaimCommit(k, fault) ==
    /\ bus.w[k].pc = "updated"
    /\ bus' = IF fault THEN ClaimReturns(k)
              ELSE Committed([ClaimReturns(k) EXCEPT
                        !.tasks[bus.w[k].task] = [@ EXCEPT !.status = "running", !.worker_id = k],
                        !.got[k] = @ \cup {bus.w[k].task}])
    /\ UNCHANGED <<corpus, rundb, loc, mtime, clock, returned, mpc, mrun, mres, queue, attached,
                   eng, ctx, start, retried, store, ing, pipe, proc, handle, txn, sexec, life, srch>>

NextBus ==
    \/ \E zone \in Zones : \E now \in Stamps : SubmitTask(zone, now)
    \/ \E k \in Workers : \E zone \in Zones : ClaimSelect(k, zone)
    \/ \E k \in Workers : \E fault \in BOOLEAN : ClaimUpdate(k, fault)
    \/ \E k \in Workers : \E fault \in BOOLEAN : ClaimCommit(k, fault)

SpecBus == Init /\ [][NextBus]_vars

\* ------------------------------------------------------------------ chunks.file_id REFERENCES raw_files(id)
\* a completed run-db whose _output names the files D arrives in queue/pending/
\* (the merger takes whatever .db file the directory holds)
QueuedRun(r, D) ==
    /\ rundb[r].status = "none"
    /\ loc' = [loc EXCEPT ![r] = "pending"]
    /\ EndRun(r, "completed", FullOutput(D), "structure")
    /\ UNCHANGED <<corpus, returned, mpc, mrun, mres, queue, attached, eng, ctx, start, retried,
                   store, ing, pipe, proc, handle, txn, sexec, life, bus, srch>>

\* INSERT INTO chunks (id, file_id, ...) VALUES (c, f, ...) through the corpus
\* handle: rejected when the id is taken and, on a connection that enforces
\* foreign keys, when raw_files has no row f
InsertChunk(c, f) ==
    /\ handle' = ConnFor(handle)
    /\ corpus' = IF HasChunk(corpus, c) \/ (ForeignKeysOn /\ ~HasFile(corpus, f))
                 THEN corpus
                 ELSE [corpus EXCEPT !.chunks = @ \cup
                            {[id |-> c, file_id |-> f, created_by_run |-> NULL]}]
    /\ UNCHANGED <<rundb, loc, mtime, clock, returned, mpc, mrun, mres, queue, attached, eng, ctx,
                   start, retried, store, ing, pipe, proc, txn, sexec, life, bus, srch>>

NextFK ==
    \/ HandleTick
    \/ \E r \in RunIds : \E f \in ContentIds \ {GoFile} : QueuedRun(r, {f})
    \/ \E f \in ContentIds \ {GoFile} : InsertChunk(f, f)
    \/ BatchList
    \/ BatchMerge
    \/ MergeBody("batch")
    \/ MergeFinish("batch")

SpecFK == Init /\ [][NextFK]_vars

\* ------------------------------------------------------------------ Orchestrator.Search, cmdSearch
\* what keeps the steps of search_v1 from running: chunks_fts cannot be
\* queried, a query vector the scoring needs is not there
RunObstacles == {"fts unavailable", "query vector missing"}

\* rows _output can hold: chunk_id, score, and whether rows.Scan can read the row
OutputRows == [chunk_id : 1..MaxRows, score : 0..1, scans : BOOLEAN]

\* tables with chunk_id as key
OutputTables ==
    {T \in SUBSET OutputRows : \A a, b \in T : a.chunk_id = b.chunk_id => a = b}

\* the rows in the order of a result slice
Range(seq) == {seq[i] : i \in DOMAIN seq}

\* SELECT ... FROM _output ORDER BY score DESC, then the Scan loop, which
\* skips a row it cannot read: the slices Search can build from table T
ResultSlices(T) ==
    LET rows == {row \in T : row.scans}
    IN  {seq \in UNION {[1..n -> rows] : n \in 0..MaxRows} :
            /\ Range(seq) = rows
            /\ Len(seq) = Cardinality(rows)
            /\ \A i, j \in DOMAIN seq : i < j => seq[i].score >= seq[j].score}

\* cmdSearch and main after Search returned an error: main prints "Error: ..."
\* on stderr and exits with status 1
SearchError(s, wrap, obstacle) ==
    [s EXCEPT !.pc = "returned", !.obstacle = obstacle, !.results = << >>, !.err = wrap,
              !.shown = "Error", !.exit = 1]

\* Search up to the return of engine.Run(ctx, "search_v1", cfg): an error of the
\* run is returned as "search workflow: %w" with nil results
SearchRun(obstacle, T) ==
    /\ srch.pc \in {"idle", "returned"}
    /\ srch' = IF obstacle # "none"
               THEN SearchError(NoSearch, "search workflow", obstacle)
               ELSE [NoSearch EXCEPT !.pc = "ran", !.output = T]
    /\ UNCHANGED <<corpus, rundb, loc, mtime, clock, returned, mpc, mrun, mres, queue, attached,
                   eng, ctx, start, retried, store, ing, pipe, proc, handle, txn, sexec, life, bus>>

\* db.Open of the run-db: "open run db: %w"
SearchOpen(fault) ==
    /\ srch.pc = "ran"
    /\ srch' = IF fault THEN SearchError(srch, "open run db", "run db unreadable")
               ELSE [srch EXCEPT !.pc = "opened"]
    /\ UNCHANGED <<corpus, rundb, loc, mtime, clock, returned, mpc, mrun, mres, queue, attached,
                   eng, ctx, start, retried, store, ing, pipe, proc, handle, txn, sexec, life, bus>>

\* the query on _output ("query results: %w"), the Scan loop, the return of
\* (results, nil); cmdSearch prints "No results found." for an empty slice and
\* the results otherwise
SearchQuery(fault) ==
    /\ srch.pc = "opened"
    /\ IF fault
       THEN srch' = SearchError(srch, "query results", "run db unreadable")
       ELSE \E seq \in ResultSlices(srch.output) :
                srch' = [srch EXCEPT !.pc = "returned", !.results = seq, !.err = "nil",
                                     !.shown = IF seq = << >> THEN "No results found."
                                               ELSE "results",
                                     !.exit = 0]
    /\ UNCHANGED <<corpus, rundb, loc, mtime, clock, returned, mpc, mrun, mres, queue, attached,
                   eng, ctx, start, retried, store, ing, pipe, proc, handle, txn, sexec, life, bus>>

NextSearch ==
    \/ \E obstacle \in RunObstacles \cup {"none"} : \E T \in OutputTables : SearchRun(obstacle, T)
    \/ \E fault \in BOOLEAN : SearchOpen(fault)
    \/ \E fault \in BOOLEAN : SearchQuery(fault)

SpecSearch == Init /\ [][NextSearch]_vars

\* ------------------------------------------------------------------ steps named by the properties
\* p runs mergeRun's body in this step: status check, gate, transaction
MergeStep(p) == mpc[p] = "body" /\ mpc'[p] = "finish"
\* p's mergeRun returns in this step
ReturnStep(p) == mpc[p] = "finish" /\ mpc'[p] = "idle"
\* processBatch goes on to the next listed file in this step
BatchAdvance == queue # << >> /\ queue' = Tail(queue)
FilesVectorized(db, r) ==
    \A row \in db.raw_files : row.id \in OutputFiles(r) => row.status = "vectorized"

\* ------------------------------------------------------------------ C1
\* C1: every step that changes corpus.db is a step of the merger; orchestrator
\* and workers never insert, update or delete a corpus.db row.
C1_OnlyMergerWrites ==
    [][corpus' # corpus => \E p \in MergeProcs : MergeStep(p)]_vars

C4_NonCompletedNeverMerged ==
    /\ [](\A r \in RunIds : MergedIn(corpus, r) => rundb[r].status = "completed")
    /\ [][/\ \A p \in MergeProcs :
                MergeStep(p) /\ rundb[mrun[p]].status # "completed" =>
                    corpus' = corpus /\ mres'[p] = "err"
          /\ BatchAdvance /\ rundb[Head(queue)].status # "completed" =>
                loc'[Head(queue)] = "failed"]_vars

\* a run-db still marked running was taken from pending/ and is now in failed/
C4_Witness ==
    \E r \in RunIds :
        /\ loc[r] = "failed" /\ rundb[r].status = "running"
        /\ rundb[r].output # {}
        /\ queue = << >> /\ mpc["batch"] = "idle" /\ mpc["one"] = "idle" /\ mrun["one"] = 0

\* ------------------------------------------------------------------ C5
\* C5 (as stated): no merge of a run-db begins while a run-db with an earlier
\* mtime waits in pending/.
C5_FIFOByMtime ==
    [][\A p \in MergeProcs :
            mpc[p] = "idle" /\ mpc'[p] = "body" =>
                \A q \in PendingRuns : mtime[mrun'[p]] <= mtime[q]]_vars

\* C5 (amended): the run-dbs of one listing of pending/ are processed in
\* non-decreasing mtime order: the file processBatch is at has no later mtime
\* than any file of the same listing still to come.
C5_BatchInMtimeOrder ==
    \A i \in 1..Len(queue) : \A j \in 1..Len(queue) :
        i < j => mtime[queue[i]] <= mtime[queue[j]]

\* processBatch is merging the first of two listed run-dbs
C5_Witness ==
    /\ Len(queue) = 2
    /\ mpc["batch"] = "body" /\ mrun["batch"] = Head(queue)
    /\ mtime[queue[1]] < mtime[queue[2]]

\* ------------------------------------------------------------------ C7
\* C7: at most one merge (attach of run_src up to the detach) is in progress
\* at any moment, for the batch loop and ProcessOne together.
C7_MergesSerialized ==
    Cardinality({p \in MergeProcs : mpc[p] # "idle"}) <= 1

\* ProcessOne holds run_src inside its transaction while processBatch has
\* listed files waiting
C7_Witness ==
    /\ mpc["one"] = "finish" /\ mres["one"] = "merged"
    /\ mpc["batch"] = "idle" /\ queue # << >>

\* ------------------------------------------------------------------ C8
\* C8: a merge that commits leaves run r recorded in run_history with
\* merge_status merged; the record is never lost; and in every state where r is
\* recorded as merged, every raw file whose id is a file_id of r's _output has
\* status vectorized.
C8_MergedRunRecorded ==
    /\ [](\A r \in RunIds : MergedIn(corpus, r) => FilesVectorized(corpus, r))
    /\ [][/\ \A p \in MergeProcs :
                MergeStep(p) /\ mres'[p] = "merged" => MergedIn(corpus', mrun[p])
          /\ \A r \in RunIds : MergedIn(corpus, r) => MergedIn(corpus', r)]_vars

\* a merged run with output, its file in done/, after the merge has returned
C8_Witness ==
    \E r \in RunIds :
        /\ MergedIn(corpus, r) /\ loc[r] = "done"
        /\ OutputFiles(r) # {}
        /\ \E row \in corpus.raw_files : row.id \in OutputFiles(r) /\ row.id # LegacyFile

\* ------------------------------------------------------------------ C9
\* C9: a chunk row with created_by_run NULL is a row of the initial state, and
\* every chunk row a step adds carries the run id of the run-db being merged
\* in that step and comes from its _output.
C9_ChunksCarryRunId ==
    /\ [](\A row \in corpus.chunks :
            row.created_by_run = NULL => row \in LegacyCorpus.chunks)
    /\ [][\A row \in corpus'.chunks \ corpus.chunks :
            \E p \in MergeProcs :
                /\ MergeStep(p)
                /\ row.created_by_run = mrun[p]
                /\ \E o \in rundb[mrun[p]].output : o.id = row.id]_vars

\* a chunk of the initial state (no run) next to a chunk a merge added
C9_Witness ==
    /\ \E row \in corpus.chunks : row.created_by_run = NULL
    /\ \E row \in corpus.chunks : row.created_by_run \in RunIds

\* ------------------------------------------------------------------ C6
\* the run-dbs S in ascending mtime (mtimes of finished runs are distinct)
ByMtime(S) ==
    CHOOSE seq \in [1..Cardinality(S) -> S] :
        \A i \in 1..Cardinality(S) : \A j \in 1..Cardinality(S) :
            i < j => mtime[seq[i]] < mtime[seq[j]]

RECURSIVE SerialMerge(_, _)
\* corpus.db after merging the run-dbs of seq one after the other
SerialMerge(db, seq) ==
    IF seq = << >> THEN db ELSE SerialMerge(MergeRunBody(db, Head(seq)).db, Tail(seq))

\* corpus.db as the workers found it
CorpusBeforeMerges ==
    WithFiles(IF HasFile(corpus, LegacyFile) THEN LegacyCorpus ELSE EmptyCorpus, RunIds)

\* every worker has finished and the merger has gone through pending/
SerialDone ==
    /\ WorkersDone
    /\ PendingRuns = {} /\ queue = << >> /\ mpc["batch"] = "idle"

PathFromPending ==
    {<<"none", "pending">>, <<"pending", "running">>,
     <<"running", "completed">>, <<"running", "failed">>}
\* the status changes of the path running -> (completed | failed)
PathFromRunning ==
    {<<"none", "running">>, <<"running", "completed">>, <<"running", "failed">>}

\* every change of a run's status, in _run_meta and in the Run value, is in Path
FollowsPath(Path) ==
    \A r \in RunIds :
        /\ rundb'[r].status # rundb[r].status =>
                <<rundb[r].status, rundb'[r].status>> \in Path
        /\ eng'[r].status # eng[r].status =>
                <<eng[r].status, eng'[r].status>> \in Path

\* C10 (as stated): a run starts in pending and its status only ever follows
\* pending -> running -> (completed | failed); completed and failed are never left.
C10_PendingRunningTerminal == [][FollowsPath(PathFromPending)]_vars

\* C10 (amended): a run starts in running (pending is never written) and its
\* status only ever follows running -> (completed | failed); completed and
\* failed are never left.
C10_RunningThenTerminal == [][FollowsPath(PathFromRunning)]_vars

\* a run of a workflow with MaxSteps steps has returned completed, and its
\* _run_meta row says so
C10_Witness ==
    \E r \in RunIds :
        /\ eng[r].pc = "returned" /\ eng[r].status = "completed"
        /\ rundb[r].status = "completed" /\ eng[r].n = MaxSteps

\* ------------------------------------------------------------------ C11
\* C11: once the execution of a run has ended (Run has returned), its
\* _run_meta row does not say running: the run reached completed or failed.
C11_EndedRunNotRunning ==
    \A r \in RunIds : eng[r].pc = "returned" => rundb[r].status # "running"

\* ------------------------------------------------------------------ C12
\* the step with step_order k of run r was logged with rows_out = 0 and its
\* on_empty is mode
EmptyStep(r, k, mode) ==
    /\ \E row \in rundb[r].log : row.step_order = k /\ row.rows_out = 0
    /\ \E j \in 1..Len(eng[r].steps) :
            eng[r].steps[j].step_order = k /\ eng[r].steps[j].on_empty = mode

\* the last call of executeStep in run r was for the step with step_order k
LastExecuted(r, k) ==
    /\ eng[r].ran # << >>
    /\ eng[r].ran[Len(eng[r].ran)].step_order = k

C13_SkipRemainingSkips ==
    \A r \in RunIds : \A k \in StepOrders :
        EmptyStep(r, k, "skip_remaining") =>
            /\ LastExecuted(r, k)
            /\ eng[r].pc = "returned" => eng[r].status = "completed"

\* ------------------------------------------------------------------ C14
\* the row of _step_executions for the step with step_order k
LogRow(r, k) == CHOOSE row \in rundb[r].log : row.step_order = k
Logged(r, k) == \E row \in rundb[r].log : row.step_order = k

\* the j-th call of executeStep in run r read the table the workflow names:
\* the step's source, or for "_input" after the first step the output of the
\* step executed just before
ReadsItsSource(r, j) ==
    eng[r].ran[j].source =
        IF eng[r].steps[j].source = "_input" /\ j > 1
        THEN eng[r].steps[j - 1].output ELSE eng[r].steps[j].source

\* when the j-th step executed was logged and read a table of the workflow,
\* that table was created by exactly one earlier step, and the rows counted in
\* are the rows that step put into the table
SeesRowsOfSourceStep(r, j) ==
    LET k == eng[r].ran[j].step_order
        T == eng[r].ran[j].source
        makers == {m \in 1..(j - 1) : eng[r].steps[m].output = T}
    IN  Logged(r, k) /\ T \in Tables =>
            /\ Cardinality(makers) = 1
            /\ \A m \in makers :
                    /\ Logged(r, eng[r].steps[m].step_order)
                    /\ \A t \in TableNamed(rundb[r], T) : LogRow(r, k).rows_in = t.rows

C15_TerminalStatusHasFinishTime ==
    \A r \in RunIds :
        rundb[r].status \in {"completed", "failed"} =>
            rundb[r].finished_at \notin {NULL, ZeroTime}

\* ------------------------------------------------------------------ C16
\* C16: when Run has returned the run with an error (a step's operation
\* failed, or a step was empty with on_empty = fail), _step_executions holds an
\* entry for the step executed last, and the run's status is failed.
C16_FailedStepIsLogged ==
    \A r \in RunIds :
        eng[r].pc = "returned" /\ eng[r].ret = "run_err" =>
            /\ eng[r].status = "failed"
            /\ Logged(r, eng[r].ran[Len(eng[r].ran)].step_order)

\* ------------------------------------------------------------------ C17
\* C17: a turn of Run's loop taken with the context cancelled ends the run:
\* Run returns, _run_meta.status is failed afterwards, and the run-db file
\* stays where it was.
C17_CancelledRunIsFailed ==
    [][\A r \in RunIds :
            (ctx = "cancelled" /\ eng[r].pc = "loop"
                /\ Len(eng'[r].ran) > Len(eng[r].ran)) =>
                    (/\ eng'[r].pc = "returned"
                     /\ rundb'[r].status = "failed"
                     /\ loc'[r] = loc[r])]_vars

\* ------------------------------------------------------------------ C18
\* p attaches a run-db in this step (mergeRun begins to read it)
AttachStep(p) == mpc[p] = "idle" /\ mpc'[p] = "body"

\* a run-db is written only by the run that creates it under runs/, and it
\* enters pending/ only by the worker's rename after Run has returned (the
\* run-db closed) or by RetryFailed from failed/
WorkerOwnsUntilRename ==
    \A r \in RunIds :
        /\ rundb'[r] # rundb[r] \/ mtime'[r] # mtime[r] =>
                loc[r] = "none" /\ loc'[r] = "runs"
        /\ loc[r] # "pending" /\ loc'[r] = "pending" =>
                r \in returned \/ loc[r] = "failed"

\* C18 (as stated): the worker does not write a run-db after its rename into
\* pending/, and no entry point of the merger attaches a run-db that is not
\* in pending/.
C18_MergerReadsOnlyPending ==
    [][/\ WorkerOwnsUntilRename
       /\ \A p \in MergeProcs : AttachStep(p) => loc[mrun'[p]] = "pending"]_vars

\* C18 (amended): the worker does not write a run-db after its rename into
\* pending/, and processBatch attaches only run-dbs that are in pending/ and
\* that no worker is still about to rename; ProcessOne attaches the run-db at
\* the path it is given, in pending/ or not.
C18_BatchReadsOnlyPending ==
    [][/\ WorkerOwnsUntilRename
       /\ AttachStep("batch") =>
            loc[mrun'["batch"]] = "pending" /\ mrun'["batch"] \notin returned]_vars

\* processBatch is reading a run-db from pending/ while another run-db lies
\* in runs/, its worker between Run's return and the rename
C18_Witness ==
    /\ mpc["batch"] = "body" /\ loc[mrun["batch"]] = "pending"
    /\ \E r \in returned : loc[r] = "runs"

\* ------------------------------------------------------------------ C19
\* C19: every run-db that is in pending/ is eventually in done/ or in failed/.
C19_PendingEventuallyConsumed ==
    \A r \in RunIds : (loc[r] = "pending") ~> (loc[r] \in {"done", "failed"})

\* ------------------------------------------------------------------ C20
\* the transaction of mergeRun for r would commit if left alone
WouldCommit(r) ==
    /\ StatusCompleted(r) /\ ~AlreadyMerged(corpus, r)
    /\ MergeTx(corpus, r).ok

\* C20: a merge whose transaction has begun and meets no error of its own
\* commits: mergeRun returns merged with every statement applied, whatever
\* happens to the context meanwhile.
C20_BegunTransactionCommits ==
    [][\A p \in MergeProcs :
            (MergeStep(p) /\ ctx = "live" /\ WouldCommit(mrun[p])) =>
                (mres'[p] = "merged" /\ corpus' = MergeTx(corpus, mrun[p]).db)]_vars

\* ------------------------------------------------------------------ C21
\* Start takes a tick from ticker.C and calls processBatch in this step
BatchStarts == start.tick /\ ~start'.tick

\* C21: once the context is cancelled no new batch is started, and at its
\* select Start can return at once: the return does not wait for a tick.
C21_CancelledStartsNoBatch ==
    /\ [][ctx = "cancelled" => ~BatchStarts]_vars
    /\ [](ctx = "cancelled" /\ AtSelect => ENABLED StartReturn)

\* ------------------------------------------------------------------ C22
\* C22: when Run has returned, its run-db no longer tracks the alias corpus;
\* and whenever no merge is in progress, corpus.db tracks no alias, so the
\* attach of the next merge does not fail on "alias already attached".
C22_DetachedOnEveryExit ==
    /\ \A r \in RunIds : eng[r].pc = "returned" => ~eng[r].att
    /\ (\A p \in MergeProcs : mpc[p] = "idle") => attached = 0

\* ------------------------------------------------------------------ C23
\* C23 (as stated): a run-db that RetryFailed moved back to pending/ is merged
\* by a later batch: it does not return to failed/, the batch's merge of it
\* writes what a successful merge writes, and once in done/ it is recorded as
\* merged.
C23_RetriedRunIsMerged ==
    /\ [](\A r \in retried :
            /\ loc[r] \in {"pending", "done"}
            /\ loc[r] = "done" => MergedIn(corpus, r))
    /\ [][MergeStep("batch") /\ mrun["batch"] \in retried =>
            \/ mres'["batch"] = "merged" /\ corpus' = MergeTx(corpus, mrun["batch"]).db
            \/ mres'["batch"] = "skipped" /\ corpus' = corpus]_vars

\* C23 (amended): a run-db that RetryFailed moved back to pending/ is listed by
\* the next batch like any pending run-db. When its merge commits, corpus.db
\* gets what a merge of that run-db into the corpus.db of that moment writes and
\* the file moves to done/; when the merge fails again, corpus.db is unchanged
\* and the file returns to failed/. RetryFailed itself changes nothing in
\* corpus.db and moves every file of failed/.
C23_RetriedRunIsProcessedAgain ==
    /\ [](\A r \in retried : loc[r] = "done" => MergedIn(corpus, r))
    /\ [][/\ retried' # retried =>
                /\ corpus' = corpus
                /\ \A r \in RunIds : loc[r] = "failed" => loc'[r] = "pending"
          /\ queue = << >> /\ queue' # << >> =>
                \A r \in retried : loc[r] = "pending" =>
                    \E i \in 1..Len(queue') : queue'[i] = r
          /\ MergeStep("batch") /\ mrun["batch"] \in retried =>
                \/ mres'["batch"] = "merged" /\ corpus' = MergeTx(corpus, mrun["batch"]).db
                \/ mres'["batch"] \in {"skipped", "err"} /\ corpus' = corpus
          /\ ReturnStep("batch") /\ mrun["batch"] \in retried =>
                loc'[mrun["batch"]] = IF mres["batch"] = "err" THEN "failed" ELSE "done"
          /\ BatchAdvance /\ mpc["batch"] = "idle" /\ Head(queue) \in retried =>
                loc'[Head(queue)] = "failed" /\ corpus' = corpus]_vars

\* the batch has just committed the merge of a run-db with output that had
\* been in failed/ and was moved back by RetryFailed
C23_Witness ==
    /\ mpc["batch"] = "finish" /\ mres["batch"] = "merged"
    /\ mrun["batch"] \in retried
    /\ rundb[mrun["batch"]].output # {}
    /\ \E row \in corpus.chunks : row.created_by_run = mrun["batch"]

\* ------------------------------------------------------------------ C24
\* caller p's Ingest returns in this step
IngestReturns(p) == ing'[p].pc = "idle" /\ ing'[p] # ing[p]

\* C24: a call of Ingest for content whose id has a raw_files row when the
\* call looks it up returns that id, and no step of the call writes or removes
\* a store file or changes raw_files.
C24_IngestIdempotent ==
    [][\A p \in Ingesters :
            (IngestReturns(p) /\ ing'[p].had) =>
                (/\ ing'[p].ret = "id"
                 /\ ing[p].pc = "idle"
                 /\ store' = store
                 /\ corpus'.raw_files = corpus.raw_files)]_vars

\* ------------------------------------------------------------------ C25
\* C25: whenever no call of Ingest is in progress, the store holds the whole
\* file of content f exactly when raw_files holds the row with id f.
C25_FileExistsIffRowExists ==
    (\A p \in Ingesters : ing[p].pc = "idle") =>
        \A f \in ContentIds : (store[f] # "absent") <=> HasFile(corpus, f)

\* ------------------------------------------------------------------ C26
\* none of the chunks of r's _output is in corpus.db
OutputIsNew(r) == \A o \in rundb[r].output : ~HasChunk(corpus, o.id)

C27_OrphanEventuallyRemoved ==
    /\ [](\A r \in RunIds :
            eng[r].pc = "killed" /\ loc[r] # "removed" =>
                loc[r] = "runs" /\ rundb[r].status = "running")
    /\ \A r \in RunIds : (eng[r].pc = "killed") ~> (loc[r] = "removed")

\* ------------------------------------------------------------------ C28
\* C28: corpus-db never holds two chunk rows with the same hash, and no chunk
\* content is stored twice.
C28_HashUniqueInCorpus ==
    \A c1 \in pipe.chunks : \A c2 \in pipe.chunks :
        (c1.hash = c2.hash \/ c1.content = c2.content) => c1 = c2

\* ------------------------------------------------------------------ C29
\* C29: the hash step gives every row the SHA-256 of its content column, and
\* every chunk that reaches corpus-db has hash = SHA-256(content).
C29_HashIsSHA256 ==
    [][/\ PipeHash => pipe'.table = executeHashSHA256(pipe.table)
       /\ \A c \in pipe'.chunks : c.hash = SHA256(c.content)]_vars

\* ------------------------------------------------------------------ C30
\* the raw_files row of f says pending
IsPending(db, f) == \E row \in db.raw_files : row.id = f /\ row.status = "pending"

\* a step created the run-db of r
RunStarted(r) == rundb[r].status = "none" /\ rundb'[r] # rundb[r]

\* C30: a pending file whose MIME type has no workflow is left alone by
\* ProcessPending: no run is started for it (a call that finds only such files
\* starts none, and no run's output names the file), the call returns nil and
\* reports no workflow the file would belong to, and the file's status stays
\* pending.
C30_UnmappedMimeIgnored ==
    [][IsPending(corpus, GoFile) =>
        /\ IsPending(corpus', GoFile)
        /\ \A r \in RunIds :
            /\ RunStarted(r) => PendingFiles(corpus) # {GoFile}
            /\ \A row \in rundb'[r].output : row.file_id # GoFile
        /\ proc' # proc =>
            /\ proc'.ret = "nil"
            /\ proc'.reported \subseteq {"pdf_chunking_v1"}
            /\ PendingFiles(corpus) = {GoFile} =>
                    proc'.reported = {} /\ rundb' = rundb /\ loc' = loc]_vars

\* ProcessPending has returned with nothing to report, the .go file is pending
\* and no run exists, and a merged run has left it pending beside a processed file
C30_Witness ==
    /\ IsPending(corpus, GoFile)
    /\ proc.ret = "nil"
    /\ \E f \in FileIds : \E row \in corpus.raw_files : row.id = f /\ row.status = "vectorized"
    /\ \E r \in RunIds : MergedIn(corpus, r)

\* ------------------------------------------------------------------ C31
\* C31: after any sequence of Attach and Detach calls, failing ones included,
\* the aliases the handle tracks are exactly the schemas attached; Attach
\* under a tracked alias fails and changes nothing, and so does Detach of an
\* alias that is not tracked.
C31_TrackedIsAttached ==
    [][/\ handle'.attached = handle'.schemas
       /\ \A alias \in Aliases :
            /\ ((\E fault \in BOOLEAN : HandleAttach(alias, fault)) /\ alias \in handle.attached)
                => (handle'.last.err /\ handle'.attached = handle.attached
                        /\ handle'.schemas = handle.schemas)
            /\ ((\E fault \in BOOLEAN : HandleDetach(alias, fault)) /\ alias \notin handle.attached)
                => (handle'.last.err /\ handle'.attached = handle.attached
                        /\ handle'.schemas = handle.schemas)]_vars

\* ------------------------------------------------------------------ C32
\* a call of Transaction in which fn ran returns in this step
TxnReturns == txn.pc \in {"rollback", "commit"} /\ txn'.pc = "idle"

\* what holds of a call whose fn returned an error: nothing is committed, the
\* returned error carries fn's error, and the rollback's error when the
\* rollback failed
TxnFnErrorSurfaced ==
    (TxnReturns /\ txn.fnErr) =>
        /\ ~txn'.committed /\ txn'.db = txn.db
        /\ "fn" \in txn'.err
        /\ TxnRollback(TRUE) => "rollback" \in txn'.err

\* C32 as stated: Transaction commits if and only if fn returned nil; when fn
\* returned an error the transaction is rolled back and the returned error
\* carries fn's error and, when the rollback failed, the rollback's error.
C32_CommitsIffFnNil ==
    [][/\ TxnReturns => (txn'.committed <=> ~txn.fnErr)
       /\ TxnFnErrorSurfaced]_vars

\* C32: Transaction commits only if fn returned nil; when fn returned nil it
\* commits what fn wrote and returns nil, unless the commit itself fails, and
\* then nothing is committed and the commit's error is returned; when fn
\* returned an error the transaction is rolled back and the returned error
\* carries fn's error and, when the rollback failed, the rollback's error.
C32_CommitsOnlyIfFnNil ==
    [][/\ TxnReturns =>
            /\ txn'.committed => ~txn.fnErr
            /\ ~txn.fnErr =>
                \/ txn'.committed /\ txn'.err = {} /\ txn'.db = txn.db \cup txn.tx
                \/ ~txn'.committed /\ "commit" \in txn'.err /\ txn'.db = txn.db
       /\ TxnFnErrorSurfaced]_vars

\* after a commit of two rows, a later call's fn failed and so did its rollback
C32_Witness ==
    /\ txn.pc = "idle" /\ txn.err = {"rollback", "fn"}
    /\ txn.db = TxnRows

\* ------------------------------------------------------------------ C33
\* C33: for every step execution recorded in a run-db, rows_out is the number
\* of rows of the step's output table.
C33_RowsOutIsRowCount ==
    \A r \in RunIds : \A e \in rundb[r].log :
        \E t \in TableNamed(rundb[r], e.output_table) : t.rows = e.rows_out

\* ------------------------------------------------------------------ C34
\* two quotients are the same number
SameNumber(a, b) == a.num * b.den = b.num * a.den

\* C34: a step execution's delta_score is 1 - rows_out / max(1, rows_in), for
\* every rows_in and rows_out, rows_in = 0 included.
C34_DeltaScoreFormula ==
    sexec.pc = "returned" =>
        LET d == IF sexec.rows_in > 1 THEN sexec.rows_in ELSE 1
        IN  SameNumber(sexec.delta_score, Quotient(d - sexec.rows_out, d))

\* ------------------------------------------------------------------ C35
\* a step deletes a run-db file
RemovesFile == \E r \in RunIds : loc'[r] = "removed" /\ loc[r] # "removed"

\* no row of corpus.db is deleted
CorpusRowsKept ==
    /\ corpus.raw_files \subseteq corpus'.raw_files
    /\ corpus.chunks \subseteq corpus'.chunks
    /\ corpus.chunk_features \subseteq corpus'.chunk_features
    /\ corpus.chunk_vectors \subseteq corpus'.chunk_vectors
    /\ corpus.chunk_relations \subseteq corpus'.chunk_relations
    /\ corpus.run_history \subseteq corpus'.run_history
    /\ corpus.audit_log \subseteq corpus'.audit_log

CoveredInPending(f) ==
    \E q \in RunIds : loc[q] = "pending" /\ rundb[q].status = "completed" /\ f \in OutputFiles(q)

\* C36: a raw file is handed to at most one successful run: no ProcessPending
\* call starts a run on a file that a completed run waiting in pending/ already
\* covers, merged or not.
C36_OneRunPerFile ==
    [][ProcessPending => \A f \in WorkflowFiles(corpus) : ~CoveredInPending(f)]_vars

\* ------------------------------------------------------------------ C37
\* a Start loop is active
LoopActive == \E c \in Starters : life.st[c].pc = "loop"

\* C37: the running flag is false whenever no Start loop is active (the loop
\* has exited, through Stop or through a cancelled context), and the stop
\* channel is never closed a second time.
C37_RunningWhileLoop ==
    /\ ~LoopActive => ~life.running
    /\ ~life.panicked

\* ------------------------------------------------------------------ C38
\* ClaimTask returns task t to worker k in this step
Claimed(k, t) == t \in bus'.got[k] /\ t \notin bus.got[k]

\* C38: whatever the interleaving of ClaimTask calls, a task returned to a
\* caller carries that caller's worker_id in the tasks table from then on, so
\* no task is returned to two workers; and the task a call returns was
\* pending and had the smallest created_at among the pending tasks of its zone.
C38_ClaimedByOneWorker ==
    [][/\ \A k \in Workers : \A t \in bus'.got[k] : bus'.tasks[t].worker_id = k
       /\ \A k, j \in Workers : k # j => bus'.got[k] \cap bus'.got[j] = {}
       /\ \A k \in Workers : \A t \in TaskIds :
            Claimed(k, t) =>
                /\ t \in PendingIn(bus.tasks, bus.tasks[t].zone)
                /\ \A u \in PendingIn(bus.tasks, bus.tasks[t].zone) :
                        bus.tasks[t].created_at <= bus.tasks[u].created_at]_vars

\* two workers had selected the same task: one has been returned it, the
\* other is still before its UPDATE; and a task created earlier than another
\* pending task of its zone has been claimed before it
C38_Witness ==
    /\ \E k, j \in Workers :
        /\ k # j
        /\ bus.w[j].pc = "selected" /\ bus.w[j].task \in bus.got[k]
    /\ \E t, u \in TaskIds :
        /\ bus.tasks[t].status = "running" /\ bus.tasks[u].status = "pending"
        /\ bus.tasks[t].zone = bus.tasks[u].zone
        /\ bus.tasks[t].created_at < bus.tasks[u].created_at

\* ------------------------------------------------------------------ C39
\* C39: every chunk of corpus.db names a file that has a raw_files row: an
\* insert of a chunk whose file_id has none, direct or through a merge, stores
\* nothing.
C39_NoOrphanChunk == \A c \in corpus.chunks : HasFile(corpus, c.file_id)

\* ------------------------------------------------------------------ C40
\* a search has returned that could not be carried out
SearchImpossible == srch.pc = "returned" /\ srch.obstacle # "none"

\* C40: a search that cannot be carried out (FTS unavailable, a required query
\* vector missing) does not fail: Search returns an empty result set and no
\* error, the command exits normally, and a message says why nothing was
\* found.
C40_SearchDegrades ==
    SearchImpossible =>
        /\ srch.results = << >>
        /\ srch.err = "nil"
        /\ srch.exit = 0
        /\ srch.shown \notin {"none", "results"}
====
